---- MODULE Spec2Model ----
(***************************************************************************)
(* Tenant attribution and isolation engine of the payment platform:        *)
(* sliding-window rate limiter, isolation-enforcing repository, tenant     *)
(* context carrier, tenant resolver with identity cache.                   *)
(*                                                                         *)
(* Each component has its own specification (SpecRL, SpecGW, SpecCtx,      *)
(* SpecRes); the variables of the other components stay at their initial   *)
(* values.                                                                 *)
(***************************************************************************)
EXTENDS Integers, Sequences, FiniteSets, TLC

\* ------------------------------------------------------------------------
\* Shared values
\* ------------------------------------------------------------------------

\* Tenants of the platform (Mongo _id of the tenant record).
Tenants == {"A", "B"}

\* Absent field / JavaScript null or undefined.
NULL == "null"
ABSENT == "absent"

Max(a, b) == IF a >= b THEN a ELSE b

\* Math.floor(a / b) for b > 0
FloorDiv(a, b) == a \div b

\* Math.ceil(a / b) for b > 0
CeilDiv(a, b) == -((-a) \div b)

\* ------------------------------------------------------------------------
\* Rate limiter (rate-limiter.service.ts)
\* ------------------------------------------------------------------------

\* Concurrent checkAndConsume calls of the model.
NumCalls == 4
\* Largest value of the clock.
MaxTime == 2
\* config.rateLimiting.windowMs, scaled down.
WindowMs == 2
\* Milliseconds per second, scaled down.
MsPerSec == 2
\* apiRateLimit of the two tenants (tier limits, scaled down).
LimitA == 2
LimitB == 1
\* Distinct outcomes of Math.random().toString(36).substring(7).
NumRand == 2

Calls == 1..NumCalls
Rand == 1..NumRand

VARIABLES
    rlClock,   \* Date.now() / clock of the store
    zset,      \* key -> sorted set stored under the key
    pexpire,   \* key -> time at which the key expires (0: no expiry set)
    rlCall,    \* call -> position and locals of a checkAndConsume call
    rlLog,     \* history: results returned by checkAndConsume
    rlSeq      \* history: no call has started while another one was pending

rlVars == <<rlClock, zset, pexpire, rlCall, rlLog, rlSeq>>

\* tenant.getEffectiveLimits().apiRateLimit
ApiRateLimit(t) == IF t = "A" THEN LimitA ELSE LimitB

IdleCall == [pc |-> "idle", tenant |-> NULL, now |-> 0, rnd |-> 0]

\* The sorted set as the store sees it: an expired key is gone.
LiveZset(key) == IF pexpire[key] # 0 /\ rlClock >= pexpire[key] THEN {} ELSE zset[key]

\* A key that leaves the tenant out.
RateLimitKeyNoTenant(t, endpoint) == <<"rate_limit", endpoint>>

\* `rate_limit:${tenant._id}:${endpoint}`
RateLimitKey(t, endpoint) == <<"rate_limit", t, endpoint>>

\* The bucket RateLimitGuard asks for.
GlobalKey(t) == RateLimitKey(t, "global")

\* ZREMRANGEBYSCORE key 0 window_start
ZRemRangeByScore(set, lo, hi) == {e \in set : ~(e.score >= lo /\ e.score <= hi)}

\* ZADD key score member: a member already present only has its score updated.
ZAddDup(set, score, member) == set \cup {[score |-> score, member |-> member]}
ZAdd(set, score, member) ==
    {e \in set : e.member # member} \cup {[score |-> score, member |-> member]}

\* Score of the first element of ZRANGE key 0 0 WITHSCORES (set not empty).
OldestScore(set) == CHOOSE s \in {e.score : e \in set} : \A e \in set : s <= e.score

\* The Lua script, run atomically by the store.
\* Returns the new set, whether PEXPIRE ran, and the reply {allowed, count, reset_at}.
\* A script that renews the expiry on a rejection too.
LuaScriptExpireAlways(set, now, windowStart, limit, windowMs, member) ==
    LET pruned == ZRemRangeByScore(set, 0, windowStart)
        count == Cardinality(pruned)
        resetAt == IF pruned # {} THEN OldestScore(pruned) + windowMs ELSE now + windowMs
    IN  IF count < limit
        THEN [set |-> ZAdd(pruned, now, member), expire |-> TRUE,
              allowed |-> 1, count |-> count + 1, resetAt |-> resetAt]
        ELSE [set |-> pruned, expire |-> TRUE,
              allowed |-> 0, count |-> count, resetAt |-> resetAt]
LuaScriptNoPrune(set, now, windowStart, limit, windowMs, member) ==
    LET count == Cardinality(set)
        resetAt == IF set # {} THEN OldestScore(set) + windowMs ELSE now + windowMs
    IN  IF count < limit
        THEN [set |-> ZAdd(set, now, member), expire |-> TRUE,
              allowed |-> 1, count |-> count + 1, resetAt |-> resetAt]
        ELSE [set |-> set, expire |-> FALSE,
              allowed |-> 0, count |-> count, resetAt |-> resetAt]
LuaScript(set, now, windowStart, limit, windowMs, member) ==
    LET pruned == ZRemRangeByScore(set, 0, windowStart)
        count == Cardinality(pruned)
        resetAt == IF pruned # {} THEN OldestScore(pruned) + windowMs ELSE now + windowMs
    IN  IF count < limit
        THEN [set |-> ZAdd(pruned, now, member), expire |-> TRUE,
              allowed |-> 1, count |-> count + 1, resetAt |-> resetAt]
        ELSE [set |-> pruned, expire |-> FALSE,
              allowed |-> 0, count |-> count, resetAt |-> resetAt]

\* An expiry of one window length.
PExpireMsOneWindow(windowMs) == windowMs

\* redis.call('PEXPIRE', key, window_ms * 2)
PExpireMs(windowMs) == windowMs * 2

\* RateLimitGuard.canActivate on the result of checkAndConsume: the request
\* goes on to the handler, or is answered 429 Too Many Requests.
RateLimitGuardOutcome(allowed) == IF allowed THEN "handler" ELSE "tooManyRequests"

\* A limiter that blocks when the store is unreachable.
FailClosedResult(limit, now) ==
    [allowed |-> FALSE, limit |-> limit, remaining |-> 0,
     resetAt |-> CeilDiv(now + WindowMs, MsPerSec), retryAfter |-> 1]

\* The result checkAndConsume returns from its catch block (retryAfter 0:
\* not set).
FailOpenResult(limit, now) ==
    [allowed |-> TRUE, limit |-> limit, remaining |-> limit,
     resetAt |-> CeilDiv(now + WindowMs, MsPerSec), retryAfter |-> 0]

\* checkAndConsume up to the await on redis.eval: tenant, limit, key, now and the
\* member are fixed here; the script runs later.
CheckAndConsumeBegin(c, t, r) ==
    /\ rlCall[c].pc = "idle"
    /\ \A d \in Calls : d < c => rlCall[d].pc # "idle"
    /\ rlCall' = [rlCall EXCEPT ![c] = [pc |-> "sent", tenant |-> t, now |-> rlClock, rnd |-> r]]
    /\ rlSeq' = (rlSeq /\ \A d \in Calls : rlCall[d].pc # "sent")
    /\ UNCHANGED <<rlClock, zset, pexpire, rlLog>>

\* The script runs in the store and checkAndConsume returns its result.
CheckAndConsumeEval(c) ==
    /\ rlCall[c].pc = "sent"
    /\ LET t == rlCall[c].tenant
           now == rlCall[c].now
           limit == ApiRateLimit(t)
           key == GlobalKey(t)
           reply == LuaScript(LiveZset(key), now, now - WindowMs, limit, WindowMs,
                              <<now, rlCall[c].rnd>>)
           remaining == Max(0, limit - reply.count)
       IN  /\ zset' = [zset EXCEPT ![key] = reply.set]
           /\ pexpire' = [pexpire EXCEPT ![key] =
                            IF reply.expire THEN rlClock + PExpireMs(WindowMs)
                            ELSE IF LiveZset(key) = {} THEN 0 ELSE @]
           /\ rlLog' = rlLog \cup {[call |-> c, tenant |-> t, at |-> now, failOpen |-> FALSE,
                                   outcome |-> RateLimitGuardOutcome(reply.allowed = 1),
                                   allowed |-> reply.allowed = 1, limit |-> limit,
                                   remaining |-> remaining,
                                   resetAt |-> CeilDiv(reply.resetAt, MsPerSec),
                                   retryAfter |-> IF reply.allowed = 0
                                                  THEN CeilDiv(reply.resetAt - now, MsPerSec)
                                                  ELSE 0]}
    /\ rlCall' = [rlCall EXCEPT ![c] = [IdleCall EXCEPT !.pc = "done"]]
    /\ UNCHANGED <<rlClock, rlSeq>>

\* redis.eval rejects (store unreachable): checkAndConsume fails open.
CheckAndConsumeFail(c) ==
    /\ rlCall[c].pc = "sent"
    /\ LET t == rlCall[c].tenant
           now == rlCall[c].now
           limit == ApiRateLimit(t)
           res == FailOpenResult(limit, now)
       IN  rlLog' = rlLog \cup {[call |-> c, tenant |-> t, at |-> now, failOpen |-> TRUE,
                                 outcome |-> RateLimitGuardOutcome(res.allowed),
                                 allowed |-> res.allowed, limit |-> res.limit,
                                 remaining |-> res.remaining,
                                 resetAt |-> res.resetAt,
                                 retryAfter |-> res.retryAfter]}
    /\ rlCall' = [rlCall EXCEPT ![c] = [IdleCall EXCEPT !.pc = "done"]]
    /\ UNCHANGED <<rlClock, zset, pexpire, rlSeq>>

\* Calls and clock values of the behaviours in which keys expire.
NumExpCalls == 2
MaxExpTime == 5

\* Time passes, long enough for a key to expire.
RLTickLong ==
    /\ rlClock < MaxExpTime
    /\ rlClock' = rlClock + 1
    /\ UNCHANGED <<zset, pexpire, rlCall, rlLog, rlSeq>>

\* Time passes.
RLTick ==
    /\ rlClock < MaxTime
    /\ rlClock' = rlClock + 1
    /\ UNCHANGED <<zset, pexpire, rlCall, rlLog, rlSeq>>

RLInit ==
    /\ rlClock = 0
    /\ zset = [k \in {GlobalKey(t) : t \in Tenants} |-> {}]
    /\ pexpire = [k \in {GlobalKey(t) : t \in Tenants} |-> 0]
    /\ rlCall = [c \in Calls |-> IdleCall]
    /\ rlLog = {}
    /\ rlSeq = TRUE

\* ------------------------------------------------------------------------
\* Isolation-enforcing repository (tenant-aware.repository.ts)
\* ------------------------------------------------------------------------

\* Documents the collection can hold (ids are allocated in order, never reused).
MaxDocs == 2
\* Repository operations in one behaviour.
MaxOps == 2
DocIds == 1..MaxDocs

\* Values a caller can give filter.tenantId: absent, null/undefined/'' (falsy),
\* a tenant id, or an operator object such as {$ne: ...}.
OPOBJ == "opobj"
FilterTids == {ABSENT, NULL, OPOBJ} \cup Tenants

\* The context an operation runs in: a tenant, or NULL outside any scope.
GwContexts == Tenants \cup {NULL}

\* Actor passed to softDelete as deletedBy.
Actor == "U"

\* (id 0: no _id clause)
NoFilter == [tenantId |-> ABSENT, id |-> 0, orTid |-> ABSENT, deletedAt |-> ABSENT]

\* Caller-supplied filters: {}, {tenantId: v}, {$or: [{tenantId: t}]},
\* {deletedAt: {$ne: null}}.
Filters ==
    {NoFilter}
    \cup {[NoFilter EXCEPT !.tenantId = v] : v \in FilterTids \ {ABSENT}}
    \cup {[NoFilter EXCEPT !.orTid = t] : t \in Tenants}
    \cup {[NoFilter EXCEPT !.deletedAt = "neNull"]}

\* (setDeletedAt -1: deletedAt not named, 0: set to null, else the date)
NoUpdate == [setTid |-> ABSENT, topTid |-> ABSENT, unsetTid |-> FALSE, setVal |-> ABSENT,
             setDeletedAt |-> -1, setDeletedBy |-> ABSENT]

\* Caller-supplied update payloads: {$set: {val: 'v1'}} alone, or with
\* $set.tenantId, a top-level tenantId, or $unset.tenantId.
Updates ==
    {[NoUpdate EXCEPT !.setVal = "v1"]}
    \cup {[NoUpdate EXCEPT !.setVal = "v1", !.setTid = v] : v \in Tenants \cup {NULL}}
    \cup {[NoUpdate EXCEPT !.setVal = "v1", !.topTid = v] : v \in Tenants}
    \cup {[NoUpdate EXCEPT !.setVal = "v1", !.unsetTid = TRUE]}

\* Filters tried in context ctx (outside any scope the filter decides nothing
\* but whether getTenantId is reached through the tenantId check).
FiltersIn(ctx) ==
    IF ctx = NULL THEN {NoFilter, [NoFilter EXCEPT !.tenantId = "A"]} ELSE Filters

\* Filter and payload pairs given to updateOne and updateMany.
UpdateArgs(ctx) ==
    {<<f, [NoUpdate EXCEPT !.setVal = "v1"]>> : f \in FiltersIn(ctx)}
    \cup {<<NoFilter, u>> : u \in IF ctx = NULL THEN {} ELSE Updates}

\* Caller-supplied data of create: with or without a tenantId of its own.
CreateData == {[tenantId |-> v] : v \in {ABSENT} \cup Tenants}

VARIABLES
    gwStore,   \* the collection: document id -> document
    gwNextId,  \* next document id
    gwClock,   \* new Date()
    gwOps,     \* operations performed so far
    gwLast     \* history: the last repository operation and its outcome

gwVars == <<gwStore, gwNextId, gwClock, gwOps, gwLast>>

ReadOps == {"findOne", "findById", "find", "findPaginated", "count", "exists", "findDeleted"}
UpdateOps == {"updateOne", "updateById", "updateMany", "softDelete", "softDeleteMany", "restore"}
DeleteOps == {"hardDelete", "hardDeleteMany"}

\* Truthiness of filter.tenantId?.toString()
Truthy(v) == v \notin {ABSENT, NULL}

\* injectTenantFilter: the merged filter, or the error thrown.
InjectTenantFilterNoContextError(ctx, filter, includeDeleted) ==
    IF filter.tenantId # ABSENT /\ Truthy(filter.tenantId) /\ filter.tenantId # ctx
    THEN [err |-> "forbidden", filter |-> NoFilter]
    ELSE [err |-> "none",
          filter |-> [filter EXCEPT !.tenantId = ctx,
                                    !.deletedAt = IF includeDeleted THEN @ ELSE NULL]]
InjectTenantFilterNoCheck(ctx, filter, includeDeleted) ==
    IF ctx = NULL THEN [err |-> "nocontext", filter |-> NoFilter]
    ELSE [err |-> "none",
          filter |-> [filter EXCEPT !.tenantId = ctx,
                                    !.deletedAt = IF includeDeleted THEN @ ELSE NULL]]
InjectTenantFilterNoTenant(ctx, filter, includeDeleted) ==
    IF ctx = NULL THEN [err |-> "nocontext", filter |-> NoFilter]
    ELSE IF Truthy(filter.tenantId) /\ filter.tenantId # ctx
    THEN [err |-> "forbidden", filter |-> NoFilter]
    ELSE [err |-> "none",
          filter |-> [filter EXCEPT !.deletedAt = IF includeDeleted THEN @ ELSE NULL]]
InjectTenantFilterNoDeleted(ctx, filter, includeDeleted) ==
    IF ctx = NULL THEN [err |-> "nocontext", filter |-> NoFilter]
    ELSE IF Truthy(filter.tenantId) /\ filter.tenantId # ctx
    THEN [err |-> "forbidden", filter |-> NoFilter]
    ELSE [err |-> "none", filter |-> [filter EXCEPT !.tenantId = ctx]]
InjectTenantFilter(ctx, filter, includeDeleted) ==
    IF ctx = NULL THEN [err |-> "nocontext", filter |-> NoFilter]
    ELSE IF filter.tenantId # ABSENT /\ Truthy(filter.tenantId) /\ filter.tenantId # ctx
    THEN [err |-> "forbidden", filter |-> NoFilter]
    ELSE [err |-> "none",
          filter |-> [filter EXCEPT !.tenantId = ctx,
                                    !.deletedAt = IF includeDeleted THEN @ ELSE NULL]]

\* injectTenantId: {...data, tenantId: getTenantId()}
InjectTenantIdDataWins(ctx, data) ==
    [data EXCEPT !.tenantId = IF @ = ABSENT THEN ctx ELSE @]
InjectTenantId(ctx, data) == [data EXCEPT !.tenantId = ctx]

\* Does the store's query engine select document doc (with id i) for filter f?
Matches(i, doc, f) ==
    /\ f.tenantId = ABSENT \/ (IF f.tenantId \in {NULL} THEN doc.tenantId = NULL
                               ELSE doc.tenantId = f.tenantId)
    /\ f.id = 0 \/ f.id = i
    /\ f.orTid = ABSENT \/ doc.tenantId = f.orTid
    /\ CASE f.deletedAt = ABSENT -> TRUE
         [] f.deletedAt = NULL -> doc.deletedAt = 0
         [] OTHER -> doc.deletedAt # 0

Matching(f) == {i \in DOMAIN gwStore : Matches(i, gwStore[i], f)}

MinOf(S) == CHOOSE x \in S : \A y \in S : x <= y
MaxOf(S) == CHOOSE x \in S : \A y \in S : x >= y

\* The document a findOne-style query selects: the first in natural order.
FirstMatch(f) == IF Matching(f) = {} THEN {} ELSE {MinOf(Matching(f))}

\* updateOne's guard: a truthy $set.tenantId or top-level tenantId removes both.
StripTenantId(update) ==
    IF Truthy(update.setTid) \/ Truthy(update.topTid)
    THEN [update EXCEPT !.setTid = ABSENT, !.topTid = ABSENT]
    ELSE update

\* The store applies an update document to a document.
ApplyUpdate(doc, u) ==
    [tenantId |-> IF u.unsetTid THEN NULL
                  ELSE IF u.setTid # ABSENT THEN u.setTid
                  ELSE IF u.topTid # ABSENT THEN u.topTid
                  ELSE doc.tenantId,
     val |-> IF u.setVal # ABSENT THEN u.setVal ELSE doc.val,
     deletedAt |-> IF u.setDeletedAt # -1 THEN u.setDeletedAt ELSE doc.deletedAt,
     deletedBy |-> IF u.setDeletedBy # ABSENT THEN u.setDeletedBy ELSE doc.deletedBy]

\* {$set: {deletedAt: new Date(), ...(deletedBy && {deletedBy})}}
SoftDeleteUpdate(by) ==
    [NoUpdate EXCEPT !.setDeletedAt = gwClock,
                     !.setDeletedBy = IF by = NULL THEN ABSENT ELSE by]

\* The record of an operation: its name, the context tenant, the tenantId the
\* caller's filter (or data) named, includeDeleted, the outcome, the documents
\* returned (or matched, or created), those counted, the store calls made, and
\* the caller's filter (or data) itself.
Last(op, ctx, filter, incl, outcome, result, counted, calls) ==
    [op |-> op, ctx |-> ctx, tidArg |-> filter.tenantId, incl |-> incl,
     outcome |-> outcome, result |-> result, counted |-> counted, storeCalls |-> calls,
     arg |-> filter]

\* A read that makes one query returning the documents `pick` of the match set.
ReadWith(op, ctx, filter, incl, merged, result, counted, calls) ==
    /\ gwOps < MaxOps
    /\ gwOps' = gwOps + 1
    /\ gwLast' = IF merged.err # "none"
                 THEN Last(op, ctx, filter, incl, merged.err, {}, {}, 0)
                 ELSE Last(op, ctx, filter, incl, "ok", result, counted, calls)
    /\ UNCHANGED <<gwStore, gwNextId, gwClock>>

\* A write that applies update u to the documents `targets`.
UpdateWith(op, ctx, filter, merged, targets, u) ==
    /\ gwOps < MaxOps
    /\ gwOps' = gwOps + 1
    /\ gwLast' = IF merged.err # "none"
                 THEN Last(op, ctx, filter, FALSE, merged.err, {}, {}, 0)
                 ELSE Last(op, ctx, filter, FALSE, "ok", targets, {}, 1)
    /\ gwStore' = IF merged.err # "none" THEN gwStore
                  ELSE [i \in DOMAIN gwStore |->
                          IF i \in targets THEN ApplyUpdate(gwStore[i], u) ELSE gwStore[i]]
    /\ UNCHANGED <<gwNextId, gwClock>>

\* A write that removes the documents `targets`.
DeleteWith(op, ctx, filter, merged, targets) ==
    /\ gwOps < MaxOps
    /\ gwOps' = gwOps + 1
    /\ gwLast' = IF merged.err # "none"
                 THEN Last(op, ctx, filter, TRUE, merged.err, {}, {}, 0)
                 ELSE Last(op, ctx, filter, TRUE, "ok", targets, {}, 1)
    /\ gwStore' = IF merged.err # "none" THEN gwStore
                  ELSE [i \in DOMAIN gwStore \ targets |-> gwStore[i]]
    /\ UNCHANGED <<gwNextId, gwClock>>

\* A new document with the schema defaults (deletedAt 0: null).
NewDoc(data) == [tenantId |-> data.tenantId, val |-> "v0", deletedAt |-> 0, deletedBy |-> NULL]

Create(ctx, data) ==
    /\ gwNextId <= MaxDocs
    /\ gwOps < MaxOps
    /\ gwOps' = gwOps + 1
    /\ IF ctx = NULL
       THEN /\ gwLast' = Last("create", ctx, NoFilter, FALSE, "nocontext", {}, {}, 0)
            /\ UNCHANGED <<gwStore, gwNextId>>
       ELSE /\ gwStore' = [i \in DOMAIN gwStore \cup {gwNextId} |->
                            IF i = gwNextId THEN NewDoc(InjectTenantId(ctx, data))
                            ELSE gwStore[i]]
            /\ gwNextId' = gwNextId + 1
            /\ gwLast' = Last("create", ctx, [NoFilter EXCEPT !.tenantId = data.tenantId],
                              FALSE, "ok", {gwNextId}, {}, 1)
    /\ UNCHANGED gwClock

CreateMany(ctx, dataArray) ==
    /\ gwNextId + Len(dataArray) - 1 <= MaxDocs
    /\ gwOps < MaxOps
    /\ gwOps' = gwOps + 1
    /\ IF ctx = NULL
       THEN /\ gwLast' = Last("createMany", ctx, NoFilter, FALSE, "nocontext", {}, {}, 0)
            /\ UNCHANGED <<gwStore, gwNextId>>
       ELSE LET new == gwNextId..(gwNextId + Len(dataArray) - 1)
            IN  /\ gwStore' = [i \in DOMAIN gwStore \cup new |->
                                IF i \in new
                                THEN NewDoc(InjectTenantId(ctx, dataArray[i - gwNextId + 1]))
                                ELSE gwStore[i]]
                /\ gwNextId' = gwNextId + Len(dataArray)
                /\ gwLast' = Last("createMany", ctx,
                                  [NoFilter EXCEPT !.tenantId = dataArray[1].tenantId],
                                  FALSE, "ok", new, {}, 1)
    /\ UNCHANGED gwClock

FindOne(ctx, filter, includeDeleted) ==
    LET m == InjectTenantFilter(ctx, filter, includeDeleted)
    IN  ReadWith("findOne", ctx, filter, includeDeleted, m, FirstMatch(m.filter), {}, 1)

FindById(ctx, id, includeDeleted) ==
    LET f == [NoFilter EXCEPT !.id = id]
        m == InjectTenantFilter(ctx, f, includeDeleted)
    IN  ReadWith("findById", ctx, f, includeDeleted, m, FirstMatch(m.filter), {}, 1)

Find(ctx, filter, includeDeleted) ==
    LET m == InjectTenantFilter(ctx, filter, includeDeleted)
    IN  ReadWith("find", ctx, filter, includeDeleted, m, Matching(m.filter), {}, 1)

\* Page `page` of size `limit` of the matches sorted by createdAt descending.
RECURSIVE DropNewest(_, _)
DropNewest(S, n) == IF n = 0 \/ S = {} THEN S ELSE DropNewest(S \ {MaxOf(S)}, n - 1)
PageOf(S, page, limit) ==
    LET rest == DropNewest(S, (page - 1) * limit)
    IN  rest \ DropNewest(rest, limit)

FindPaginated(ctx, filter, includeDeleted, page, limit) ==
    LET m == InjectTenantFilter(ctx, filter, includeDeleted)
    IN  ReadWith("findPaginated", ctx, filter, includeDeleted, m,
                 PageOf(Matching(m.filter), page, limit), Matching(m.filter), 2)

Count(ctx, filter, includeDeleted) ==
    LET m == InjectTenantFilter(ctx, filter, includeDeleted)
    IN  ReadWith("count", ctx, filter, includeDeleted, m, {}, Matching(m.filter), 1)

Exists(ctx, filter) ==
    LET m == InjectTenantFilter(ctx, filter, FALSE)
    IN  ReadWith("exists", ctx, filter, FALSE, m, FirstMatch(m.filter), {}, 1)

FindDeleted(ctx, filter) ==
    LET m == InjectTenantFilter(ctx, filter, TRUE)
        f == [m.filter EXCEPT !.deletedAt = "neNull"]
    IN  ReadWith("findDeleted", ctx, filter, TRUE, m, Matching(f), {}, 1)

UpdateOneAs(op, ctx, filter, update) ==
    LET m == InjectTenantFilter(ctx, filter, FALSE)
    IN  UpdateWith(op, ctx, filter, m, FirstMatch(m.filter), StripTenantId(update))

UpdateOne(ctx, filter, update) == UpdateOneAs("updateOne", ctx, filter, update)

UpdateById(ctx, id, update) ==
    UpdateOneAs("updateById", ctx, [NoFilter EXCEPT !.id = id], update)

UpdateManyAs(op, ctx, filter, update) ==
    LET m == InjectTenantFilter(ctx, filter, FALSE)
    IN  UpdateWith(op, ctx, filter, m, Matching(m.filter), update)

UpdateMany(ctx, filter, update) == UpdateManyAs("updateMany", ctx, filter, update)

\* A deletedBy that is no ObjectId string.
BadActor == "bad"

\* new Types.ObjectId(deletedBy) returns for a 24-digit hexadecimal string and
\* throws for any other.
ActorIsObjectId(by) == by = Actor

\* softDelete and softDeleteMany build their update document before anything
\* else: the cast of a malformed deletedBy throws there.
CastFail(op, ctx, filter) ==
    /\ gwOps < MaxOps
    /\ gwOps' = gwOps + 1
    /\ gwLast' = Last(op, ctx, filter, FALSE, "castError", {}, {}, 0)
    /\ UNCHANGED <<gwStore, gwNextId, gwClock>>

SoftDelete(ctx, id, by) ==
    IF by # NULL /\ ~ActorIsObjectId(by)
    THEN CastFail("softDelete", ctx, [NoFilter EXCEPT !.id = id])
    ELSE UpdateOneAs("softDelete", ctx, [NoFilter EXCEPT !.id = id], SoftDeleteUpdate(by))

SoftDeleteMany(ctx, filter, by) ==
    IF by # NULL /\ ~ActorIsObjectId(by)
    THEN CastFail("softDeleteMany", ctx, filter)
    ELSE UpdateManyAs("softDeleteMany", ctx, filter, SoftDeleteUpdate(by))

\* A restore that clears the deletion time and keeps the actor.
RestoreKeepsActor(ctx, id) ==
    LET f == [NoFilter EXCEPT !.id = id]
        m == InjectTenantFilter(ctx, f, TRUE)
    IN  UpdateWith("restore", ctx, f, m, FirstMatch(m.filter),
                   [NoUpdate EXCEPT !.setDeletedAt = 0])

Restore(ctx, id) ==
    LET f == [NoFilter EXCEPT !.id = id]
        m == InjectTenantFilter(ctx, f, TRUE)
    IN  UpdateWith("restore", ctx, f, m, FirstMatch(m.filter),
                   [NoUpdate EXCEPT !.setDeletedAt = 0, !.setDeletedBy = NULL])

HardDelete(ctx, id) ==
    LET f == [NoFilter EXCEPT !.id = id]
        m == InjectTenantFilter(ctx, f, TRUE)
    IN  DeleteWith("hardDelete", ctx, f, m, FirstMatch(m.filter))

HardDeleteMany(ctx, filter) ==
    LET m == InjectTenantFilter(ctx, filter, TRUE)
    IN  DeleteWith("hardDeleteMany", ctx, filter, m, Matching(m.filter))

\* Documents as create and softDelete leave them: owned by a tenant, live or
\* soft-deleted at time 1.
InitDocs ==
    {[tenantId |-> t, val |-> "v0", deletedAt |-> d[1], deletedBy |-> d[2]] :
        t \in Tenants, d \in {<<0, NULL>>, <<1, NULL>>}}

\* The collection when the repository starts: up to MaxDocs such documents.
GWInit ==
    /\ \E k \in 0..MaxDocs : /\ gwStore \in [1..k -> InitDocs]
                              /\ gwNextId = k + 1
    /\ gwClock = 2
    /\ gwOps = 0
    /\ gwLast = Last("none", NULL, NoFilter, FALSE, "ok", {}, {}, 0)

\* The repository before any operation, on an empty collection.
GWIdle ==
    /\ gwStore = <<>>
    /\ gwNextId = 1
    /\ gwClock = 1
    /\ gwOps = 0
    /\ gwLast = Last("none", NULL, NoFilter, FALSE, "ok", {}, {}, 0)

\* ------------------------------------------------------------------------
\* Tenant context carrier (TenantContextService over AsyncLocalStorage,
\* TenantMiddleware, TenantGuard)
\* ------------------------------------------------------------------------

\* Concurrently handled requests and the suspensions of one handler.
NumReqs == 2
MaxAwaits == 1
Reqs == 1..NumReqs

ResolvedVia == {"jwt", "header", "subdomain", "domain"}

\* storage.getStore() === undefined, and resolve() === null.
NoStore == [tenant |-> NULL, resolvedVia |-> NULL]
NoResult == [tenant |-> NULL, resolvedVia |-> NULL]
\* resolve() rejected.
ResolveError == [tenant |-> "throw", resolvedVia |-> NULL]
ResolveResults ==
    {NoResult, ResolveError} \cup [tenant : Tenants, resolvedVia : {"jwt", "domain"}]

NoTenantContext == "No tenant context available"

VARIABLES alsCurrent, reqPc, reqRoute, reqResult, reqResource, reqBound,
          reqAwaits, reqSeen, reqOutcome, ctxProbe

ctxVars == <<alsCurrent, reqPc, reqRoute, reqResult, reqResource, reqBound,
             reqAwaits, reqSeen, reqOutcome, ctxProbe>>

\* An asynchronous continuation that ignores the store captured when it was
\* created and keeps whatever store was current.
EnterResourceStale(captured, current) == current

\* AsyncLocalStorage: a continuation runs with the store that was current when
\* it was created.
EnterResource(captured, current) == captured

\* A run() that leaves its store behind when the callback is over.
RunExitLeaky(previous, context) == context

\* storage.run(context, callback): the store inside the callback.
RunEnter(previous, context) == context

\* storage.run(context, callback): the store once the callback has returned or
\* thrown.
RunExit(previous, context) == previous

GetContext(store) == store

HasTenantContext(store) == store # NoStore

GetTenant(store) ==
    IF GetContext(store) = NoStore THEN NoTenantContext ELSE GetContext(store).tenant

GetTenantId(store) == GetTenant(store)

\* What code running under a store observes through the service.
Observe(where, store, others) ==
    [where |-> where, has |-> HasTenantContext(store),
     tenant |-> GetTenant(store), tenantId |-> GetTenantId(store),
     others |-> others]

\* The tenants bound to the other requests whose handling is suspended.
OthersBound(r) ==
    {reqResult[q].tenant : q \in {p \in Reqs \ {r} : reqPc[p] = "handling"}} \ {NULL}

\* TenantGuard.canActivate: does the request go on to the handler?
\* A guard that lets every request pass.
CanActivateAlways(skipTenant, store) == TRUE

CanActivate(skipTenant, store) == skipTenant \/ HasTenantContext(store)

\* TenantMiddleware.use up to the await on resolve(): the request starts in a
\* fresh asynchronous resource, which carries no store.
MiddlewareUse(r, route, res) ==
    /\ reqPc[r] = "new"
    /\ \A q \in Reqs : q < r => reqPc[q] # "new"
    /\ LET cur == EnterResource(NoStore, alsCurrent)
       IN  /\ alsCurrent' = cur
           /\ reqResource' = [reqResource EXCEPT ![r] = cur]
    /\ reqPc' = [reqPc EXCEPT ![r] = "resolving"]
    /\ reqRoute' = [reqRoute EXCEPT ![r] = route]
    /\ reqResult' = [reqResult EXCEPT ![r] = res]
    /\ UNCHANGED <<reqBound, reqAwaits, reqSeen, reqOutcome, ctxProbe>>

\* TenantMiddleware.use after resolve(): on a result, run(context, next) with
\* the guard and the first part of the handler inside the scope; without one,
\* next() outside any scope; on a rejection, next(error).
MiddlewareResolved(r) ==
    /\ reqPc[r] = "resolving"
    /\ LET cur == EnterResource(reqResource[r], alsCurrent)
           res == reqResult[r]
           context == [tenant |-> res.tenant, resolvedVia |-> res.resolvedVia]
           inside == IF res \in {NoResult, ResolveError} THEN cur
                     ELSE RunEnter(cur, context)
           after == IF res \in {NoResult, ResolveError} THEN cur
                    ELSE RunExit(cur, context)
           pass == CanActivate(reqRoute[r] = "skip", inside)
       IN  /\ alsCurrent' = after
           /\ IF res = ResolveError
              THEN /\ reqPc' = [reqPc EXCEPT ![r] = "done"]
                   /\ reqOutcome' = [reqOutcome EXCEPT ![r] = "error"]
                   /\ UNCHANGED <<reqResource, reqSeen, reqBound>>
              ELSE /\ reqBound' = [reqBound EXCEPT ![r] = res # NoResult]
                   /\ IF pass
                      THEN /\ reqPc' = [reqPc EXCEPT ![r] = "handling"]
                           /\ reqResource' = [reqResource EXCEPT ![r] = inside]
                           /\ reqSeen' = [reqSeen EXCEPT ![r] =
                                  @ \cup {Observe("handler", inside, OthersBound(r))}
                                    \cup IF res = NoResult THEN {}
                                         ELSE {Observe("afterRun", after, OthersBound(r))}]
                           /\ UNCHANGED reqOutcome
                      ELSE /\ reqPc' = [reqPc EXCEPT ![r] = "done"]
                           /\ reqOutcome' = [reqOutcome EXCEPT ![r] = "notfound"]
                           /\ UNCHANGED <<reqResource, reqSeen>>
    /\ UNCHANGED <<reqRoute, reqResult, reqAwaits, ctxProbe>>

\* The handler after a suspension on an external-store call: it reads the
\* context again, then suspends once more or completes.
HandlerResume(r, more) ==
    /\ reqPc[r] = "handling"
    /\ more => reqAwaits[r] < MaxAwaits
    /\ LET cur == EnterResource(reqResource[r], alsCurrent)
       IN  /\ alsCurrent' = cur
           /\ reqSeen' = [reqSeen EXCEPT ![r] = @ \cup {Observe("resumed", cur, OthersBound(r))}]
           /\ reqResource' = [reqResource EXCEPT ![r] = cur]
    /\ IF more
       THEN /\ reqAwaits' = [reqAwaits EXCEPT ![r] = @ + 1]
            /\ UNCHANGED <<reqPc, reqOutcome>>
       ELSE /\ reqPc' = [reqPc EXCEPT ![r] = "done"]
            /\ reqOutcome' = [reqOutcome EXCEPT ![r] = "ok"]
            /\ UNCHANGED reqAwaits
    /\ UNCHANGED <<reqRoute, reqResult, reqBound, ctxProbe>>

NoProbe ==
    [op |-> "none", tenant |-> NULL, threw |-> FALSE,
     inHas |-> FALSE, inTenant |-> NULL, outHas |-> FALSE, outTenant |-> NULL,
     outTenantId |-> NULL]

\* TenantContextService.run(context, body) called by code that belongs to no
\* request: body reads the context and returns or throws, then the caller
\* reads it.
RunScope(t, via, throws) ==
    /\ ctxProbe.op # "run"
    /\ LET outer == EnterResource(NoStore, alsCurrent)
           context == [tenant |-> t, resolvedVia |-> via]
           inside == RunEnter(outer, context)
           after == RunExit(outer, context)
       IN  /\ alsCurrent' = after
           /\ ctxProbe' = [op |-> "run", tenant |-> t, threw |-> throws,
                           inHas |-> HasTenantContext(inside),
                           inTenant |-> GetTenant(inside),
                           outHas |-> HasTenantContext(after),
                           outTenant |-> GetTenant(after),
                           outTenantId |-> GetTenantId(after)]
    /\ UNCHANGED <<reqPc, reqRoute, reqResult, reqResource, reqBound, reqAwaits,
                   reqSeen, reqOutcome>>

\* Code that belongs to no request and to no run() reads the context.
OutsideScope ==
    /\ ctxProbe.op # "outside"
    /\ LET cur == EnterResource(NoStore, alsCurrent)
       IN  /\ alsCurrent' = cur
           /\ ctxProbe' = [NoProbe EXCEPT !.op = "outside",
                              !.outHas = HasTenantContext(cur),
                              !.outTenant = GetTenant(cur),
                              !.outTenantId = GetTenantId(cur)]
    /\ UNCHANGED <<reqPc, reqRoute, reqResult, reqResource, reqBound, reqAwaits,
                   reqSeen, reqOutcome>>

CtxInit ==
    /\ alsCurrent = NoStore
    /\ reqPc = [r \in Reqs |-> "new"]
    /\ reqRoute = [r \in Reqs |-> "protected"]
    /\ reqResult = [r \in Reqs |-> NoResult]
    /\ reqResource = [r \in Reqs |-> NoStore]
    /\ reqBound = [r \in Reqs |-> FALSE]
    /\ reqAwaits = [r \in Reqs |-> 0]
    /\ reqSeen = [r \in Reqs |-> {}]
    /\ reqOutcome = [r \in Reqs |-> "none"]
    /\ ctxProbe = NoProbe

\* ------------------------------------------------------------------------
\* Tenant resolver, identity cache and tenant administration
\* (TenantResolverService, TenantService)
\* ------------------------------------------------------------------------

\* Resolutions and administrative operations in one behaviour.
MaxResolves == 2
MaxAdmin == 1

\* Strings are sequences of characters; the empty string and undefined are
\* both falsy and both written Empty.
Empty == <<>>
BaseDomain == <<"f", ".", "c">>
Www == <<"w", "w", "w">>

\* _id.toString() of a tenant.
IdStr(t) == <<t>>

\* The tenants collection at start: slug, apiKey, domains, isActive.
InitDir ==
    [t \in Tenants |->
        [slug |-> IF t = "A" THEN <<"a">> ELSE <<"b">>,
         apiKey |-> IF t = "A" THEN <<"k">> ELSE <<"l">>,
         domains |-> IF t = "A" THEN {<<"d">>} ELSE {<<"e">>},
         isActive |-> TRUE]]

\* req.user.tenantId, the x-tenant-id header and the host header of the
\* requests of the model.
ReqUsers == {Empty, IdStr("A"), IdStr("B")}
ReqHeaders == {Empty, IdStr("A"), IdStr("B"), <<"a">>, <<"k">>}
ReqHosts ==
    {Empty,
     <<"a", ".", "f", ".", "c">>,
     <<"w", "w", "w", ".", "b", ".", "f", ".", "c", ":", "3">>,
     <<"d">>}
\* Requests carry a claim together with a header, or a header together with a
\* host, or one of them alone.
Requests ==
    {r \in [user : ReqUsers, header : ReqHeaders, host : ReqHosts] :
        r.user = Empty \/ r.host = Empty}

RECURSIVE IndexOf(_, _, _)
\* Position of the first c in s at or after i, or 0.
IndexOf(s, c, i) ==
    IF i > Len(s) THEN 0
    ELSE IF s[i] = c THEN i
    ELSE IndexOf(s, c, i + 1)

\* s.split(c)[0]
BeforeFirst(s, c) ==
    LET i == IndexOf(s, c, 1)
    IN  IF i = 0 THEN s ELSE SubSeq(s, 1, i - 1)

RECURSIVE Split(_, _)
\* s.split(c)
Split(s, c) ==
    LET i == IndexOf(s, c, 1)
    IN  IF i = 0 THEN <<s>>
        ELSE <<SubSeq(s, 1, i - 1)>> \o Split(SubSeq(s, i + 1, Len(s)), c)

EndsWith(s, suffix) ==
    /\ Len(s) >= Len(suffix)
    /\ SubSeq(s, Len(s) - Len(suffix) + 1, Len(s)) = suffix

\* s.slice(0, -n) for n >= 1
SliceOff(s, n) == IF n >= Len(s) THEN Empty ELSE SubSeq(s, 1, Len(s) - n)

\* parts.filter((part) => part !== 'www')
SelectNotWww(parts) == SelectSeq(parts, LAMBDA p : p # Www)

\* parts.pop(), Empty for undefined
Pop(parts) == IF Len(parts) = 0 THEN Empty ELSE parts[Len(parts)]

\* resolveFromSubdomain up to the lookup: the slug looked up, or Empty when
\* the strategy returns null without a lookup.
ExtractSubdomain(host) ==
    IF host = Empty THEN Empty
    ELSE LET hostname == BeforeFirst(host, ":")
         IN  IF ~EndsWith(hostname, BaseDomain) THEN Empty
             ELSE LET subdomainPart == SliceOff(hostname, Len(BaseDomain) + 1)
                  IN  IF subdomainPart = Empty THEN Empty
                      ELSE Pop(SelectNotWww(Split(subdomainPart, ".")))

\* Types.ObjectId.isValid
ObjectIdIsValid(s) == \E t \in Tenants : s = IdStr(t)

NoLookup == [kind |-> "none", arg |-> Empty]

\* The strategy of resolve() that takes over a lookup from another one.
LookupHeaderFirst(req, s) ==
    CASE s = 1 -> IF req.header = Empty THEN NoLookup
                  ELSE [kind |-> "key", arg |-> req.header]
      [] s = 2 -> IF req.user = Empty THEN NoLookup
                  ELSE [kind |-> "id", arg |-> req.user]
      [] s = 3 -> IF ExtractSubdomain(req.host) = Empty THEN NoLookup
                  ELSE [kind |-> "slug", arg |-> ExtractSubdomain(req.host)]
      [] OTHER -> IF req.host = Empty THEN NoLookup
                  ELSE [kind |-> "domain", arg |-> BeforeFirst(req.host, ":")]

\* The lookup that strategy s of resolve() makes for a request (1 claim,
\* 2 header, 3 subdomain, 4 custom domain), or NoLookup when the strategy
\* returns null by itself.
Lookup(req, s) ==
    CASE s = 1 -> IF req.user = Empty THEN NoLookup
                  ELSE [kind |-> "id", arg |-> req.user]
      [] s = 2 -> IF req.header = Empty THEN NoLookup
                  ELSE [kind |-> "key", arg |-> req.header]
      [] s = 3 -> IF ExtractSubdomain(req.host) = Empty THEN NoLookup
                  ELSE [kind |-> "slug", arg |-> ExtractSubdomain(req.host)]
      [] OTHER -> IF req.host = Empty THEN NoLookup
                  ELSE [kind |-> "domain", arg |-> BeforeFirst(req.host, ":")]

NumStrategies == 4
ViaOf(s) == <<"jwt", "header", "subdomain", "domain">>[s]

RECURSIVE NextStrategy(_, _)
\* The first strategy from s on that makes a lookup, NumStrategies + 1 if none.
NextStrategy(req, s) ==
    IF s > NumStrategies THEN s
    ELSE IF Lookup(req, s) # NoLookup THEN s
    ELSE NextStrategy(req, s + 1)

VARIABLES dir, cache, resPc, resReq, resStrat, resFound, resTried, resResult,
          resCount, resAfter, admPc, admOp, admDoc, admCount, deactivated,
          retired, resRetired, resGetErr

resVars == <<dir, cache, resPc, resReq, resStrat, resFound, resTried, resResult,
             resCount, resAfter, admPc, admOp, admDoc, admCount, deactivated,
             retired, resRetired, resGetErr>>

\* What one strategy of a resolve() came to: the tenant it returned, whether
\* from the cache or from the directory query, and which cache calls failed.
Tried(s, t, source, getErr, setErr) ==
    [strat |-> s, tenant |-> t, source |-> source,
     getErr |-> getErr, setErr |-> setErr]

\* A directory query whose result is lost on the way.
SnapLost(t, rec) ==
    [id |-> NULL, slug |-> <<>>, apiKey |-> <<>>, domains |-> {}, isActive |-> FALSE]

\* A tenant document as read from the collection, and its absence.
Snap(t, rec) ==
    [id |-> t, slug |-> rec.slug, apiKey |-> rec.apiKey,
     domains |-> rec.domains, isActive |-> rec.isActive]
NoSnap ==
    [id |-> NULL, slug |-> Empty, apiKey |-> Empty, domains |-> {}, isActive |-> FALSE]

\* resolve() === null, and a ResolutionResult; tenant names the directory
\* record whose data the returned document carries.
NoResolution == [tenant |-> NULL, resolvedVia |-> NULL, cached |-> FALSE]
Resolution(t, s, cached) == [tenant |-> t, resolvedVia |-> ViaOf(s), cached |-> cached]

NoReq == [user |-> Empty, header |-> Empty, host |-> Empty]

\* redis.setex and redis.del on the cache, a function from the keys present
\* to the snapshots stored.
CachePut(c, key, v) == [k \in DOMAIN c \cup {key} |-> IF k = key THEN v ELSE c[k]]
CacheDel(c, keys) == [k \in DOMAIN c \ keys |-> c[k]]

\* The active tenants the directory query of a lookup matches.
DbMatches(l) ==
    {t \in Tenants :
        /\ dir[t].isActive
        /\ CASE l.kind = "id" -> IdStr(t) = l.arg
             [] l.kind = "slug" -> dir[t].slug = l.arg
             [] l.kind = "key" -> \/ ObjectIdIsValid(l.arg) /\ IdStr(t) = l.arg
                                  \/ dir[t].apiKey = l.arg
                                  \/ dir[t].slug = l.arg
             [] OTHER -> l.arg \in dir[t].domains}

\* invalidateTenantCache: the keys deleted for a tenant document.
InvalidationKeys(doc) ==
    {[kind |-> "id", arg |-> IdStr(doc.id)], [kind |-> "slug", arg |-> doc.slug]}
    \cup (IF doc.apiKey # Empty THEN {[kind |-> "key", arg |-> doc.apiKey]} ELSE {})
    \cup {[kind |-> "domain", arg |-> d] : d \in doc.domains}

\* resolve(): the first strategy that makes a lookup starts it, or null is
\* returned when none does.
ResolveBegin(req) ==
    /\ resPc \in {"idle", "done", "failed"}
    /\ resCount < MaxResolves
    /\ resReq' = req
    /\ resTried' = <<>>
    /\ resFound' = NoSnap
    /\ resAfter' = deactivated
    /\ resCount' = resCount + 1
    /\ LET s == NextStrategy(req, 1)
       IN  IF s > NumStrategies
           THEN resPc' = "done" /\ resStrat' = 1
           ELSE resPc' = "get" /\ resStrat' = s
    /\ resResult' = NoResolution
    /\ resRetired' = retired
    /\ resGetErr' = FALSE
    /\ UNCHANGED <<dir, cache, admPc, admOp, admDoc, admCount, deactivated, retired>>

\* findWithCache, redis.get: a hit ends resolve() with the cached snapshot.
FindWithCacheGet ==
    /\ resPc = "get"
    /\ LET key == Lookup(resReq, resStrat)
       IN  IF key \in DOMAIN cache
           THEN /\ resPc' = "done"
                /\ resResult' = Resolution(cache[key].id, resStrat, TRUE)
                /\ resTried' = Append(resTried,
                       Tried(resStrat, cache[key].id, "cache", FALSE, FALSE))
           ELSE /\ resPc' = "query"
                /\ UNCHANGED <<resResult, resTried>>
    /\ UNCHANGED <<dir, cache, resReq, resStrat, resFound, resCount, resAfter,
                   admPc, admOp, admDoc, admCount, deactivated,
                   retired, resRetired, resGetErr>>

\* findWithCache, redis.get failed: the error is logged and the directory is
\* queried.
FindWithCacheGetError ==
    /\ resPc = "get"
    /\ resPc' = "query"
    /\ resGetErr' = TRUE
    /\ UNCHANGED <<dir, cache, resReq, resStrat, resFound, resTried, resResult,
                   resCount, resAfter, admPc, admOp, admDoc, admCount, deactivated,
                   retired, resRetired>>

\* A query that also caches that it found nothing.
FindWithCacheQueryNegative(t) ==
    /\ resPc = "query"
    /\ LET m == DbMatches(Lookup(resReq, resStrat))
       IN  IF m # {}
           THEN /\ t \in m
                /\ resFound' = Snap(t, dir[t])
                /\ resPc' = "setex"
                /\ UNCHANGED <<cache, resStrat, resTried, resResult, resGetErr>>
           ELSE /\ t = CHOOSE x \in Tenants : TRUE
                /\ resTried' = Append(resTried,
                       Tried(resStrat, NULL, "db", resGetErr, FALSE))
                /\ resGetErr' = FALSE
                /\ LET s == NextStrategy(resReq, resStrat + 1)
                   IN  IF s > NumStrategies
                       THEN resPc' = "done" /\ UNCHANGED resStrat
                       ELSE resPc' = "get" /\ resStrat' = s
                /\ cache' = CachePut(cache, Lookup(resReq, resStrat), NoSnap)
                /\ UNCHANGED <<resFound, resResult>>
    /\ UNCHANGED <<dir, resReq, resCount, resAfter,
                   admPc, admOp, admDoc, admCount, deactivated, retired, resRetired>>

\* findWithCache, dbQuery(): a tenant found goes on to be cached; none found
\* ends this strategy, and resolve() goes on to the next one.
FindWithCacheQuery(t) ==
    /\ resPc = "query"
    /\ LET m == DbMatches(Lookup(resReq, resStrat))
       IN  IF m # {}
           THEN /\ t \in m
                /\ resFound' = Snap(t, dir[t])
                /\ resPc' = "setex"
                /\ UNCHANGED <<resStrat, resTried, resResult, resGetErr>>
           ELSE /\ t = CHOOSE x \in Tenants : TRUE
                /\ resTried' = Append(resTried,
                       Tried(resStrat, NULL, "db", resGetErr, FALSE))
                /\ resGetErr' = FALSE
                /\ LET s == NextStrategy(resReq, resStrat + 1)
                   IN  IF s > NumStrategies
                       THEN resPc' = "done" /\ UNCHANGED resStrat
                       ELSE resPc' = "get" /\ resStrat' = s
                /\ UNCHANGED <<resFound, resResult>>
    /\ UNCHANGED <<dir, cache, resReq, resCount, resAfter,
                   admPc, admOp, admDoc, admCount, deactivated, retired, resRetired>>

\* findTenantById, dbQuery(): findOne({ _id: id, isActive: true }) casts id to
\* an ObjectId; for a string that is not one the query rejects with a
\* CastError, which neither findWithCache nor resolve() catches. Any other
\* query runs as in FindWithCacheQuery.
FindTenantByIdQuery(t) ==
    IF Lookup(resReq, resStrat).kind = "id" /\ ~ObjectIdIsValid(Lookup(resReq, resStrat).arg)
    THEN /\ resPc = "query"
         /\ t = CHOOSE x \in Tenants : TRUE
         /\ resPc' = "failed"
         /\ UNCHANGED <<dir, cache, resReq, resStrat, resFound, resTried, resResult,
                        resCount, resAfter, admPc, admOp, admDoc, admCount,
                        deactivated, retired, resRetired, resGetErr>>
    ELSE FindWithCacheQuery(t)

\* A directory in which tenant B is not active.
InactiveDir == [InitDir EXCEPT !["B"].isActive = FALSE]

\* A value of req.user.tenantId that is not an ObjectId string.
NotAnObjectId == <<"z">>

\* Requests whose claim names no active tenant, with and without a header
\* and a host of tenant A.
ClaimRequests ==
    [user : {IdStr("B"), NotAnObjectId},
     header : {Empty, InitDir["A"].slug, InitDir["A"].apiKey},
     host : {Empty, InitDir["A"].slug \o <<".">> \o BaseDomain} \cup InitDir["A"].domains]

\* findWithCache, redis.setex: the snapshot is stored unless the write fails,
\* and resolve() returns the tenant found.
FindWithCacheSetex(ok) ==
    /\ resPc = "setex"
    /\ cache' = IF ok THEN CachePut(cache, Lookup(resReq, resStrat), resFound) ELSE cache
    /\ resResult' = Resolution(resFound.id, resStrat, FALSE)
    /\ resTried' = Append(resTried,
           Tried(resStrat, resFound.id, "db", resGetErr, ~ok))
    /\ resGetErr' = FALSE
    /\ resPc' = "done"
    /\ UNCHANGED <<dir, resReq, resStrat, resFound, resCount, resAfter,
                   admPc, admOp, admDoc, admCount, deactivated, retired, resRetired>>

\* A cache entry reaches its time to live (CACHE_TTL).
CacheExpire(key) ==
    /\ key \in DOMAIN cache
    /\ cache' = CacheDel(cache, {key})
    /\ UNCHANGED <<dir, resPc, resReq, resStrat, resFound, resTried, resResult,
                   resCount, resAfter, admPc, admOp, admDoc, admCount, deactivated,
                   retired, resRetired, resGetErr>>

\* TenantService.update, regenerateApiKey, deactivate and reactivate: findById.
AdminLoad(op, id) ==
    /\ admPc = "idle"
    /\ admCount < MaxAdmin
    /\ admOp' = op
    /\ admDoc' = Snap(id, dir[id])
    /\ admPc' = "loaded"
    /\ admCount' = admCount + 1
    /\ UNCHANGED <<dir, cache, resPc, resReq, resStrat, resFound, resTried,
                   resResult, resCount, resAfter, deactivated,
                   retired, resRetired, resGetErr>>

\* TenantService.deactivate: tenant.isActive = false; tenant.save().
DeactivateSave ==
    /\ admPc = "loaded" /\ admOp = "deactivate"
    /\ admDoc' = [admDoc EXCEPT !.isActive = FALSE]
    /\ dir' = [dir EXCEPT ![admDoc.id].isActive = FALSE]
    /\ admPc' = "saved"
    /\ UNCHANGED <<cache, resPc, resReq, resStrat, resFound, resTried, resResult,
                   resCount, resAfter, admOp, admCount, deactivated,
                   retired, resRetired, resGetErr>>

\* TenantService.deactivate: invalidateTenantCache(tenant), whose store error
\* is logged and dropped; deactivate() is then complete.
DeactivateInvalidate(ok) ==
    /\ admPc = "saved" /\ admOp = "deactivate"
    /\ cache' = IF ok THEN CacheDel(cache, InvalidationKeys(admDoc)) ELSE cache
    /\ deactivated' = deactivated \cup {admDoc.id}
    /\ admPc' = "idle"
    /\ UNCHANGED <<dir, resPc, resReq, resStrat, resFound, resTried, resResult,
                   resCount, resAfter, admOp, admDoc, admCount,
                   retired, resRetired, resGetErr>>

\* TenantService.reactivate: tenant.isActive = true; tenant.save(). The cache
\* is left alone.
ReactivateSave ==
    /\ admPc = "loaded" /\ admOp = "reactivate"
    /\ dir' = [dir EXCEPT ![admDoc.id].isActive = TRUE]
    /\ admDoc' = [admDoc EXCEPT !.isActive = TRUE]
    /\ deactivated' = deactivated \ {admDoc.id}
    /\ resAfter' = resAfter \ {admDoc.id}
    /\ admPc' = "idle"
    /\ UNCHANGED <<cache, resPc, resReq, resStrat, resFound, resTried, resResult,
                   resCount, admOp, admCount, retired, resRetired, resGetErr>>

\* generateApiKey(): a key no tenant has had.
GenerateApiKey(old) == old \o <<"n">>

\* TenantService.regenerateApiKey: invalidateTenantCache(tenant) with the
\* document as loaded, before the new key is written.
RegenerateInvalidate(ok) ==
    /\ admPc = "loaded" /\ admOp = "regenerateApiKey"
    /\ cache' = IF ok THEN CacheDel(cache, InvalidationKeys(admDoc)) ELSE cache
    /\ admPc' = "invalidated"
    /\ UNCHANGED <<dir, resPc, resReq, resStrat, resFound, resTried, resResult,
                   resCount, resAfter, admOp, admDoc, admCount, deactivated,
                   retired, resRetired, resGetErr>>

\* TenantService.regenerateApiKey: tenant.apiKey = generateApiKey();
\* tenant.save(); regenerateApiKey() is then complete.
RegenerateSave ==
    /\ admPc = "invalidated" /\ admOp = "regenerateApiKey"
    /\ LET key == GenerateApiKey(admDoc.apiKey)
       IN  /\ admDoc' = [admDoc EXCEPT !.apiKey = key]
           /\ dir' = [dir EXCEPT ![admDoc.id].apiKey = key]
    /\ retired' = retired \cup {admDoc.apiKey}
    /\ admPc' = "idle"
    /\ UNCHANGED <<cache, resPc, resReq, resStrat, resFound, resTried, resResult,
                   resCount, resAfter, admOp, admCount, deactivated,
                   resRetired, resGetErr>>

\* The payload of TenantService.update in the model: new custom domains.
UpdateDto == [domains |-> {<<"g">>}]

\* TenantService.update: the check that no other tenant has one of the new
\* domains; a conflict ends update() with ConflictException.
UpdateCheckDomains ==
    /\ admPc = "loaded" /\ admOp = "update"
    /\ admPc' = IF \E t \in Tenants \ {admDoc.id} : dir[t].domains \cap UpdateDto.domains # {}
                THEN "idle" ELSE "checked"
    /\ UNCHANGED <<dir, cache, resPc, resReq, resStrat, resFound, resTried, resResult,
                   resCount, resAfter, admOp, admDoc, admCount, deactivated,
                   retired, resRetired, resGetErr>>

\* TenantService.update: Object.assign(tenant, updateDto); tenant.save().
UpdateSave ==
    /\ admPc = "checked" /\ admOp = "update"
    /\ admDoc' = [admDoc EXCEPT !.domains = UpdateDto.domains]
    /\ dir' = [dir EXCEPT ![admDoc.id].domains = UpdateDto.domains]
    /\ admPc' = "saved"
    /\ UNCHANGED <<cache, resPc, resReq, resStrat, resFound, resTried, resResult,
                   resCount, resAfter, admOp, admCount, deactivated,
                   retired, resRetired, resGetErr>>

\* TenantService.update: invalidateTenantCache(tenant) with the document as
\* saved; update() is then complete.
UpdateInvalidate(ok) ==
    /\ admPc = "saved" /\ admOp = "update"
    /\ cache' = IF ok THEN CacheDel(cache, InvalidationKeys(admDoc)) ELSE cache
    /\ admPc' = "idle"
    /\ UNCHANGED <<dir, resPc, resReq, resStrat, resFound, resTried, resResult,
                   resCount, resAfter, admOp, admDoc, admCount, deactivated,
                   retired, resRetired, resGetErr>>

\* A directory in which the slug of tenant B is the identifier string of
\* tenant A: a 24-digit lowercase hexadecimal string is a slug that
\* CreateTenantDto admits.
OverlapDir == [InitDir EXCEPT !["B"].slug = IdStr("A")]

\* The resolver and the administration at rest.
ResIdle ==
    /\ cache = [k \in {} |-> NoSnap]
    /\ resPc = "idle"
    /\ resReq = NoReq
    /\ resStrat = 1
    /\ resFound = NoSnap
    /\ resTried = <<>>
    /\ resResult = NoResolution
    /\ resCount = 0
    /\ resAfter = {}
    /\ admPc = "idle"
    /\ admOp = "none"
    /\ admDoc = NoSnap
    /\ admCount = 0
    /\ deactivated = {}
    /\ retired = {}
    /\ resRetired = {}
    /\ resGetErr = FALSE

ResInit == dir = InitDir /\ ResIdle

\* Header requests only.
HeaderRequests == {r \in Requests : r.user = Empty /\ r.host = Empty /\ r.header # Empty}

\* ------------------------------------------------------------------------
\* Aggregation pipelines (TenantAwareRepository.aggregate)
\* ------------------------------------------------------------------------

MaxStages == 2

VARIABLES
    aggCtx,    \* the context the call runs in: a tenant, or NULL
    aggIn,     \* the caller's pipeline
    aggOut,    \* the pipeline handed to model.aggregate
    aggPc      \* "idle", "done", or "noContext" when getTenantId threw

aggVars == <<aggCtx, aggIn, aggOut, aggPc>>

\* A pipeline stage: its operator, the tenantId and deletedAt conditions of a
\* $match, and the collection and nested pipeline of a $lookup.
Stage(op, tenantId, deletedAt, from, hasPipeline, pipeline) ==
    [op |-> op, tenantId |-> tenantId, deletedAt |-> deletedAt, from |-> from,
     hasPipeline |-> hasPipeline, pipeline |-> pipeline]

MatchStage(tenantId, deletedAt) == Stage("$match", tenantId, deletedAt, ABSENT, FALSE, <<>>)

PlainStage(op) == Stage(op, ABSENT, ABSENT, ABSENT, FALSE, <<>>)

LookupStage(from, hasPipeline, pipeline) ==
    Stage("$lookup", ABSENT, ABSENT, from, hasPipeline, pipeline)

\* Stages a caller puts into the nested pipeline of a $lookup.
InnerStages == {MatchStage("B", ABSENT), PlainStage("$project")}

\* Stages a caller puts into a pipeline: plain ones, a $match of its own, a
\* simple $lookup, and a $lookup with an empty or a one-stage nested pipeline.
CallerStages ==
    {PlainStage("$group"), MatchStage("B", ABSENT),
     LookupStage("orders", FALSE, <<>>), LookupStage("orders", TRUE, <<>>)}
      \cup {LookupStage("orders", TRUE, <<s>>) : s \in InnerStages}

Pipelines == UNION {[1..n -> CallerStages] : n \in 0..MaxStages}

\* Without the filter in the nested pipelines.
ProtectAggregatePipelineShallow(tenantId, pipeline) ==
    <<MatchStage(tenantId, NULL)>> \o pipeline

ProtectAggregatePipeline(tenantId, pipeline) ==
    LET tenantMatch == MatchStage(tenantId, NULL)
        protect(stage) ==
            IF stage.op = "$lookup" /\ stage.hasPipeline
            THEN [stage EXCEPT !.pipeline = <<tenantMatch>> \o @]
            ELSE stage
        protectedPipeline == [i \in 1..Len(pipeline) |-> protect(pipeline[i])]
    IN  <<tenantMatch>> \o protectedPipeline

Aggregate ==
    /\ aggPc = "idle"
    /\ IF aggCtx = NULL
       THEN aggPc' = "noContext" /\ aggOut' = <<>>
       ELSE aggPc' = "done" /\ aggOut' = ProtectAggregatePipeline(aggCtx, aggIn)
    /\ UNCHANGED <<aggCtx, aggIn>>

AggInit ==
    /\ aggCtx \in GwContexts
    /\ aggIn \in Pipelines
    /\ aggOut = <<>>
    /\ aggPc = "idle"

AggIdle ==
    /\ aggCtx = NULL
    /\ aggIn = <<>>
    /\ aggOut = <<>>
    /\ aggPc = "idle"

\* ------------------------------------------------------------------------
\* Tenant snapshots through the identity cache (findWithCache, toJSON)
\* ------------------------------------------------------------------------

VARIABLES
    rtDoc,     \* the tenant document the directory query returns
    rtCached,  \* the string stored under the cache key, or NoJson
    rtMiss,    \* the tenant returned by the lookup that missed
    rtHit,     \* the tenant returned by the following lookup
    rtPc       \* "start", "missed", "hit"

rtVars == <<rtDoc, rtCached, rtMiss, rtHit, rtPc>>

\* JavaScript values of a limit: a finite number, Infinity, null.
Num(n) == [k |-> "number", v |-> n]
Infinity == [k |-> "Infinity", v |-> 0]
JsNull == [k |-> "null", v |-> 0]

LimitKeys == {"maxUsers", "maxTransactionsPerMonth", "apiRateLimit"}

TierNames == {"starter", "professional", "enterprise"}

TIER_CONFIGS ==
    [starter |-> [maxUsers |-> Num(10), maxTransactionsPerMonth |-> Num(1000),
                  apiRateLimit |-> Num(60)],
     professional |-> [maxUsers |-> Num(100), maxTransactionsPerMonth |-> Num(50000),
                       apiRateLimit |-> Num(300)],
     enterprise |-> [maxUsers |-> Infinity, maxTransactionsPerMonth |-> Infinity,
                     apiRateLimit |-> Num(1000)]]

\* customLimits left undefined.
NoCustomLimits == [undefined |-> TRUE]

\* Values of an override: a finite number, or Infinity for "unlimited" as in the
\* tier table.
OverrideValues == {Num(5), Infinity}

CustomLimits ==
    {NoCustomLimits} \cup UNION {[ks -> OverrideValues] : ks \in SUBSET LimitKeys}

\* Tenant documents of the directory.
TenantDocs ==
    [_id : {"A"}, slug : {"bank1", "bank2"}, tier : TierNames,
     domains : {{}, {"pay.bank.com"}}, customLimits : CustomLimits]

NoJson == [none |-> TRUE]
NoDoc == [none |-> TRUE]

\* Without the override of the tier limits.
GetEffectiveLimitsTierOnly(doc) == TIER_CONFIGS[doc.tier]

GetEffectiveLimits(doc) ==
    LET tierLimits == TIER_CONFIGS[doc.tier]
    IN  IF doc.customLimits = NoCustomLimits
        THEN tierLimits
        ELSE [k \in LimitKeys |->
                 IF k \in DOMAIN doc.customLimits THEN doc.customLimits[k]
                                                  ELSE tierLimits[k]]

\* The toJSON transform: id takes the value of _id, _id is deleted.
ToJSON(doc) ==
    [id |-> doc._id, slug |-> doc.slug, tier |-> doc.tier, domains |-> doc.domains,
     customLimits |-> doc.customLimits]

\* JSON.stringify of a number: Infinity (like NaN) is written as null.
StringifyValue(x) == IF x = Infinity THEN JsNull ELSE x

\* JSON.stringify followed by JSON.parse of the toJSON object; a property
\* whose value is undefined is left out.
JsonRoundTrip(obj) ==
    [obj EXCEPT !.customLimits =
        IF @ = NoCustomLimits THEN NoCustomLimits
        ELSE [k \in DOMAIN @ |-> StringifyValue(@[k])]]

\* new this.tenantModel(data): the schema's paths are taken from data, id is
\* not one of them, and the document gets an _id of its own.
NewTenantModel(data) ==
    [_id |-> "new", slug |-> data.slug, tier |-> data.tier, domains |-> data.domains,
     customLimits |-> data.customLimits]

\* new this.tenantModel(data) where the id virtual has a setter (the setter the
\* library had from 7.4 until 8.0): _id is set from data.id.
NewTenantModelIdSetter(data) == [NewTenantModel(data) EXCEPT !._id = data.id]

\* Tenant.getTenantId() of TenantContextService: tenant._id.toString().
TenantIdOf(doc) == doc._id

\* findWithCache with no entry under the key: directory query, setex, return.
FindWithCacheMissed ==
    /\ rtPc = "start" /\ rtCached = NoJson
    /\ rtCached' = JsonRoundTrip(ToJSON(rtDoc))
    /\ rtMiss' = rtDoc
    /\ rtPc' = "missed"
    /\ UNCHANGED <<rtDoc, rtHit>>

\* findWithCache with the entry under the key: parse and rebuild. Whether the
\* rebuilt document takes its _id from data.id depends on the version of the
\* library the application is built with, which the repository does not fix.
FindWithCacheHitAgain ==
    /\ rtPc = "missed" /\ rtCached # NoJson
    /\ rtHit' \in {NewTenantModel(rtCached), NewTenantModelIdSetter(rtCached)}
    /\ rtPc' = "hit"
    /\ UNCHANGED <<rtDoc, rtCached, rtMiss>>

RtInit ==
    /\ rtDoc \in TenantDocs
    /\ rtCached = NoJson
    /\ rtMiss = NoDoc
    /\ rtHit = NoDoc
    /\ rtPc = "start"

RtIdle ==
    /\ rtDoc = NoDoc
    /\ rtCached = NoJson
    /\ rtMiss = NoDoc
    /\ rtHit = NoDoc
    /\ rtPc = "start"

\* ------------------------------------------------------------------------
\* Usage meter (UsageTrackerService)
\* ------------------------------------------------------------------------

NumCallers == 2
MaxIncr == 3
NumPeriods == 2
RETENTION_DAYS == 90

Callers == 1..NumCallers
Periods == 1..NumPeriods
Metrics == {"api_calls", "transactions", "storage_bytes", "bandwidth_bytes"}

\* The metrics that count events one by one.
EventMetrics == {"api_calls", "transactions"}

\* Amounts a caller passes to increment, trackStorage and trackBandwidth.
Amounts == {-1, 0, 1, 2}

VARIABLES
    usePeriod,   \* getCurrentPeriod(): the calendar month of the clock
    useTier,     \* tenant -> tier of the tenant in the context
    useHash,     \* <<tenant, period>> -> metric -> value of the hash field
    useExpire,   \* <<tenant, period>> -> time to live set on the key (0: none)
    useCall,     \* caller -> the increment call it has in flight
    useDone,     \* <<tenant, period>> -> metric -> increment calls that returned
    useLost,     \* <<tenant, period>> -> metric -> of those, calls whose pipeline failed
    useSummary,  \* what the last getSummary returned
    useIssued    \* increment calls made so far

useVars == <<usePeriod, useTier, useHash, useExpire, useCall, useDone, useLost, useSummary,
            useIssued>>

UsageKeys == Tenants \X Periods

\* getUsageKey
GetUsageKey(tenantId, period) == <<tenantId, period>>

NoCall == [pc |-> "idle", key |-> <<NULL, 0>>, metric |-> NULL, amount |-> 0]

NoSummary == [none |-> TRUE]

ZeroCounters == [k \in UsageKeys |-> [m \in Metrics |-> 0]]

\* A write that replaces the field instead of adding to it.
HSet(hash, field, amount) == [hash EXCEPT ![field] = amount]

\* HINCRBY: one atomic add at the store.
HIncrBy(hash, field, amount) == [hash EXCEPT ![field] = @ + amount]

\* Math.round(x * 100) / 100 for x = transactions / cap * 100, in hundredths of
\* a percent; Math.round rounds halves up.
TransactionPercentUsed(transactions, cap) ==
    IF cap = Infinity THEN 0
    ELSE (2 * transactions * 10000 + cap.v) \div (2 * cap.v)

\* increment, up to the pipeline being sent: tenant from the context, period
\* from the clock, key from both.
IncrementBegin(c, tenantId, metric, amount) ==
    /\ useCall[c].pc = "idle"
    /\ useIssued < MaxIncr
    /\ useIssued' = useIssued + 1
    /\ useCall' = [useCall EXCEPT ![c] =
                      [pc |-> "sent", key |-> GetUsageKey(tenantId, usePeriod),
                       metric |-> metric, amount |-> amount]]
    /\ UNCHANGED <<usePeriod, useTier, useHash, useExpire, useDone, useLost, useSummary>>

TrackApiCall(c, tenantId) == IncrementBegin(c, tenantId, "api_calls", 1)

TrackTransaction(c, tenantId) == IncrementBegin(c, tenantId, "transactions", 1)

TrackStorage(c, tenantId, bytes) == IncrementBegin(c, tenantId, "storage_bytes", bytes)

TrackBandwidth(c, tenantId, bytes) == IncrementBegin(c, tenantId, "bandwidth_bytes", bytes)

\* The pipeline runs at the store (HINCRBY, EXPIRE) and the call returns.
IncrementExec(c) ==
    LET call == useCall[c]
    IN  /\ call.pc = "sent"
        /\ useHash' = [useHash EXCEPT ![call.key] = HIncrBy(@, call.metric, call.amount)]
        /\ useExpire' = [useExpire EXCEPT ![call.key] = RETENTION_DAYS * 24 * 60 * 60]
        /\ useDone' = [useDone EXCEPT ![call.key][call.metric] = @ + 1]
        /\ useCall' = [useCall EXCEPT ![c] = NoCall]
        /\ UNCHANGED <<usePeriod, useTier, useLost, useSummary, useIssued>>

\* The pipeline fails: the catch block logs and the call returns.
IncrementFail(c) ==
    LET call == useCall[c]
    IN  /\ call.pc = "sent"
        /\ useDone' = [useDone EXCEPT ![call.key][call.metric] = @ + 1]
        /\ useLost' = [useLost EXCEPT ![call.key][call.metric] = @ + 1]
        /\ useCall' = [useCall EXCEPT ![c] = NoCall]
        /\ UNCHANGED <<usePeriod, useTier, useHash, useExpire, useSummary, useIssued>>

\* getSummary(period): hgetall succeeds (ok) or throws.
GetSummary(tenantId, period, ok) ==
    LET key == GetUsageKey(tenantId, period)
        usage == useHash[key]
        cap == TIER_CONFIGS[useTier[tenantId]].maxTransactionsPerMonth
        transactions == IF ok THEN usage["transactions"] ELSE 0
    IN  /\ useSummary' =
              [tenantId |-> tenantId, period |-> period, failed |-> ~ok,
               apiCalls |-> IF ok THEN usage["api_calls"] ELSE 0,
               storageBytes |-> IF ok THEN usage["storage_bytes"] ELSE 0,
               bandwidthBytes |-> IF ok THEN usage["bandwidth_bytes"] ELSE 0,
               transactions |-> transactions,
               maxTransactionsPerMonth |-> cap,
               transactionPercentUsed |->
                   IF ok THEN TransactionPercentUsed(transactions, cap) ELSE 0,
               done |-> useDone[key], lost |-> useLost[key]]
        /\ UNCHANGED <<usePeriod, useTier, useHash, useExpire, useCall, useDone, useLost, useIssued>>

\* The calendar month ends.
NextMonth ==
    /\ usePeriod < NumPeriods
    /\ usePeriod' = usePeriod + 1
    /\ UNCHANGED <<useTier, useHash, useExpire, useCall, useDone, useLost, useSummary, useIssued>>

\* Tiers of the tenants that use the meter: every tier for A, next to an
\* enterprise tenant B with an unbounded cap.
UsageTiers == {f \in [Tenants -> TierNames] : f["B"] = "enterprise"}

UseIdle ==
    /\ usePeriod = 1
    /\ useTier = [t \in Tenants |-> "starter"]
    /\ useHash = ZeroCounters
    /\ useExpire = [k \in UsageKeys |-> 0]
    /\ useCall = [c \in Callers |-> NoCall]
    /\ useDone = ZeroCounters
    /\ useLost = ZeroCounters
    /\ useSummary = NoSummary
    /\ useIssued = 0

UseInit ==
    /\ usePeriod = 1
    /\ useTier \in UsageTiers
    /\ useHash = ZeroCounters
    /\ useExpire = [k \in UsageKeys |-> 0]
    /\ useCall = [c \in Callers |-> NoCall]
    /\ useDone = ZeroCounters
    /\ useLost = ZeroCounters
    /\ useSummary = NoSummary
    /\ useIssued = 0

\* ------------------------------------------------------------------------
\* Payments and the meter (PaymentService.create, hasExceededTransactionLimit)
\* ------------------------------------------------------------------------

VARIABLES
    payCreated,   \* <<tenant, period>> -> payments the tenant created in the period
    payExceeded   \* what the last hasExceededTransactionLimit returned

payVars == <<payCreated, payExceeded>>

NoAnswer == [none |-> TRUE]

ZeroPayments == [k \in UsageKeys |-> 0]

\* PaymentService.create: the repository creates the payment under the context
\* tenant; the meter is not called.
PaymentServiceCreate(ctx, data) ==
    /\ Create(ctx, data)
    /\ payCreated' = IF gwLast'.outcome = "ok"
                     THEN [payCreated EXCEPT ![<<ctx, usePeriod>>] = @ + 1]
                     ELSE payCreated
    /\ UNCHANGED <<payExceeded, useVars>>

\* hasExceededTransactionLimit: getSummary() of the current period against the
\* tenant's cap.
HasExceededTransactionLimit(tenantId, ok) ==
    LET cap == TIER_CONFIGS[useTier[tenantId]].maxTransactionsPerMonth
    IN  /\ GetSummary(tenantId, usePeriod, ok)
        /\ payExceeded' =
              [tenantId |-> tenantId, period |-> usePeriod,
               exceeded |-> IF cap = Infinity THEN FALSE
                            ELSE useSummary'.transactions >= cap.v]
        /\ UNCHANGED <<payCreated, gwVars>>

PayIdle ==
    /\ payCreated = ZeroPayments
    /\ payExceeded = NoAnswer

\* ------------------------------------------------------------------------
\* Usage history (UsageTrackerService.getHistory)
\* ------------------------------------------------------------------------

MaxMonths == 2

VARIABLES
    histTz,    \* the server's time zone: local time minus UTC, in hours
    histOut    \* what the last getHistory examined and returned

histVars == <<histTz, histOut>>

TzOffsets == {-1, 0, 1}

NoHistory == [none |-> TRUE]

\* new Date(year, month, 1) is midnight of the first of the month in LOCAL
\* time; getUTCFullYear/getUTCMonth of it give the month before when local
\* time is ahead of UTC, the same month otherwise. Months are counted as the
\* periods are (one index per calendar month).
UtcMonthOfLocalFirst(month, tz) == IF tz > 0 THEN month - 1 ELSE month

\* The same for a date built in UTC.
UtcMonthOfUtcFirst(month, tz) == month

\* hgetall(key) has at least one field: the key exists.
HasData(tenantId, period) ==
    period \in Periods /\ useExpire[GetUsageKey(tenantId, period)] # 0

HistorySummary(tenantId, period) ==
    LET usage == useHash[GetUsageKey(tenantId, period)]
        cap == TIER_CONFIGS[useTier[tenantId]].maxTransactionsPerMonth
    IN  [tenantId |-> tenantId, period |-> period,
         apiCalls |-> usage["api_calls"], transactions |-> usage["transactions"],
         storageBytes |-> usage["storage_bytes"],
         bandwidthBytes |-> usage["bandwidth_bytes"],
         maxTransactionsPerMonth |-> cap,
         transactionPercentUsed |-> TransactionPercentUsed(usage["transactions"], cap)]

\* getHistory(months); bad: the periods whose hgetall throws. The periods that
\* had data when it ran are recorded with the result.
GetHistory(tenantId, months, bad) ==
    LET now == usePeriod
        examined == [i \in 1..months |-> UtcMonthOfLocalFirst(now - (i - 1), histTz)]
        kept == SelectSeq(examined, LAMBDA p : p \notin bad /\ HasData(tenantId, p))
    IN  /\ histOut' = [tenantId |-> tenantId, months |-> months, now |-> now,
                       examined |-> examined, failed |-> bad,
                       stored |-> {p \in Periods : HasData(tenantId, p)},
                       history |-> [j \in 1..Len(kept) |-> HistorySummary(tenantId, kept[j])]]
        /\ UNCHANGED <<histTz, useVars>>

HistIdle ==
    /\ histTz = 0
    /\ histOut = NoHistory

HistInit ==
    /\ histTz \in TzOffsets
    /\ histOut = NoHistory

\* ------------------------------------------------------------------------
\* The path of a request: middleware, global guards, handler
\* ------------------------------------------------------------------------

VARIABLES
    pipePc,      \* request -> "new", "tenantGuard", "rateLimitGuard", "handler",
                 \*            "gateway", "done"
    pipeRoute,   \* request -> the decorators of its route
    pipeStore,   \* request -> the store its continuations carry
    pipeCheck,   \* request -> what checkAndConsume answered ("none": not called)
    pipeTrace,   \* request -> the steps taken, in order
    pipeOutcome  \* request -> how it ended

pipeVars == <<pipePc, pipeRoute, pipeStore, pipeCheck, pipeTrace, pipeOutcome>>

\* @SkipTenant() and @SkipRateLimit() on the route.
Routes == [skipTenant : BOOLEAN, skipRateLimit : BOOLEAN]

\* Answers of checkAndConsume: admitted, rejected, or the answer of its catch
\* block.
CheckAnswers == {"admitted", "rejected", "failOpen"}

\* A guard that lets every answer through.
AllowedAlways(answer) == TRUE

Allowed(answer) == answer \in {"admitted", "failOpen"}

\* A guard order with the rate-limit guard first.
AfterMiddlewareRateLimitFirst == "rateLimitGuard"

\* APP_GUARD providers run in the order of their registration: TenantGuard
\* first.
AfterMiddleware == "tenantGuard"

AfterTenantGuard == "rateLimitGuard"

\* TenantMiddleware.use: resolve(), then next() inside run(context, ...) when
\* a tenant was resolved, next() outside otherwise, next(error) on a rejection.
PipeMiddleware(r, route, res) ==
    /\ pipePc[r] = "new"
    /\ pipeRoute' = [pipeRoute EXCEPT ![r] = route]
    /\ IF res = ResolveError
       THEN /\ pipePc' = [pipePc EXCEPT ![r] = "done"]
            /\ pipeOutcome' = [pipeOutcome EXCEPT ![r] = "error"]
            /\ pipeTrace' = [pipeTrace EXCEPT ![r] = @ \o <<"resolve">>]
            /\ UNCHANGED pipeStore
       ELSE /\ pipePc' = [pipePc EXCEPT ![r] = AfterMiddleware]
            /\ pipeStore' = [pipeStore EXCEPT ![r] =
                   IF res = NoResult THEN NoStore
                   ELSE RunEnter(NoStore, [tenant |-> res.tenant,
                                           resolvedVia |-> res.resolvedVia])]
            /\ pipeTrace' = [pipeTrace EXCEPT ![r] =
                   @ \o (IF res = NoResult THEN <<"resolve">>
                                           ELSE <<"resolve", "context">>)]
            /\ UNCHANGED pipeOutcome
    /\ UNCHANGED pipeCheck

\* TenantGuard.canActivate
PipeTenantGuard(r) ==
    /\ pipePc[r] = "tenantGuard"
    /\ IF CanActivate(pipeRoute[r].skipTenant, pipeStore[r])
       THEN /\ pipePc' = [pipePc EXCEPT ![r] =
                   IF "rateLimitGuard" \in {pipeTrace[r][i] : i \in DOMAIN pipeTrace[r]}
                   THEN "handler" ELSE AfterTenantGuard]
            /\ pipeTrace' = [pipeTrace EXCEPT ![r] = @ \o <<"tenantGuard">>]
            /\ UNCHANGED pipeOutcome
       ELSE /\ pipePc' = [pipePc EXCEPT ![r] = "done"]
            /\ pipeOutcome' = [pipeOutcome EXCEPT ![r] = "notfound"]
            /\ pipeTrace' = [pipeTrace EXCEPT ![r] = @ \o <<"tenantGuard">>]
    /\ UNCHANGED <<pipeRoute, pipeStore, pipeCheck>>

\* RateLimitGuard.canActivate: skipped route or no tenant context: pass
\* without a check; else checkAndConsume, 429 when it does not allow,
\* trackApiCall (not awaited) and pass when it does.
PipeRateLimitGuard(r, answer) ==
    /\ pipePc[r] = "rateLimitGuard"
    /\ LET next == IF "tenantGuard" \in {pipeTrace[r][i] : i \in DOMAIN pipeTrace[r]}
                   THEN "handler" ELSE "tenantGuard"
       IN  IF pipeRoute[r].skipRateLimit \/ ~HasTenantContext(pipeStore[r])
           THEN /\ pipePc' = [pipePc EXCEPT ![r] = next]
                /\ pipeTrace' = [pipeTrace EXCEPT ![r] = @ \o <<"rateLimitGuard">>]
                /\ UNCHANGED <<pipeCheck, pipeOutcome>>
           ELSE /\ pipeCheck' = [pipeCheck EXCEPT ![r] = answer]
                /\ IF RateLimitGuardOutcome(Allowed(answer)) = "handler"
                   THEN /\ pipePc' = [pipePc EXCEPT ![r] = next]
                        /\ pipeTrace' = [pipeTrace EXCEPT ![r] =
                               @ \o <<"rateLimitGuard", "checkAndConsume", "trackApiCall">>]
                        /\ UNCHANGED pipeOutcome
                   ELSE /\ pipePc' = [pipePc EXCEPT ![r] = "done"]
                        /\ pipeTrace' = [pipeTrace EXCEPT ![r] =
                               @ \o <<"rateLimitGuard", "checkAndConsume">>]
                        /\ pipeOutcome' = [pipeOutcome EXCEPT ![r] = "tooManyRequests"]
    /\ UNCHANGED <<pipeRoute, pipeStore>>

\* The route handler starts; it either answers by itself or goes to the
\* repository.
PipeHandler(r, usesGateway) ==
    /\ pipePc[r] = "handler"
    /\ pipeTrace' = [pipeTrace EXCEPT ![r] = @ \o <<"handler">>]
    /\ IF usesGateway
       THEN pipePc' = [pipePc EXCEPT ![r] = "gateway"] /\ UNCHANGED pipeOutcome
       ELSE /\ pipePc' = [pipePc EXCEPT ![r] = "done"]
            /\ pipeOutcome' = [pipeOutcome EXCEPT ![r] = "ok"]
    /\ UNCHANGED <<pipeRoute, pipeStore, pipeCheck>>

\* A repository call of the handler: getTenantId() of the request's store.
PipeGateway(r) ==
    /\ pipePc[r] = "gateway"
    /\ pipeTrace' = [pipeTrace EXCEPT ![r] = @ \o <<"gateway">>]
    /\ pipePc' = [pipePc EXCEPT ![r] = "done"]
    /\ pipeOutcome' = [pipeOutcome EXCEPT ![r] =
           IF GetTenantId(pipeStore[r]) = NoTenantContext THEN "nocontext" ELSE "ok"]
    /\ UNCHANGED <<pipeRoute, pipeStore, pipeCheck>>

\* RateLimitGuard.canActivate with the meter: on an admission trackApiCall()
\* is started for the tenant of the context and not awaited.
RateLimitGuardCanActivate(r, c, answer) ==
    /\ PipeRateLimitGuard(r, answer)
    /\ IF \E i \in DOMAIN pipeTrace'[r] : pipeTrace'[r][i] = "trackApiCall"
       THEN TrackApiCall(c, GetTenantId(pipeStore[r]))
       ELSE c = 1 /\ UNCHANGED useVars

PipeInit ==
    /\ pipePc = [r \in Reqs |-> "new"]
    /\ pipeRoute = [r \in Reqs |-> [skipTenant |-> FALSE, skipRateLimit |-> FALSE]]
    /\ pipeStore = [r \in Reqs |-> NoStore]
    /\ pipeCheck = [r \in Reqs |-> "none"]
    /\ pipeTrace = [r \in Reqs |-> <<>>]
    /\ pipeOutcome = [r \in Reqs |-> "none"]

\* ------------------------------------------------------------------------
\* The subdomain strategy on hosts www.<slug>.<baseDomain>:<port>
\* ------------------------------------------------------------------------

VARIABLES subOut   \* the last host given to resolveFromSubdomain and its lookup

subVars == <<subOut>>

\* Longest slug of the hosts tried.
MaxSlugLen == 3

\* Slugs as CreateTenantDto admits them: two or more of [a-z0-9-].
SlugChars == {"a", "w", "-"}
Slugs == UNION {[1..n -> SlugChars] : n \in 2..MaxSlugLen}

Ports == {<<"3">>, <<"8", "0">>, <<"4", "4", "3">>}

\* www.<slug>.<baseDomain>:<port>
WwwHost(slug, port) == Www \o <<".">> \o slug \o <<".">> \o BaseDomain \o <<":">> \o port

NoSub == [host |-> Empty, slug |-> Empty, port |-> Empty, looked |-> Empty]

\* resolveFromSubdomain on a request with that host header: the slug handed
\* to findTenantBySlug, Empty when the strategy returns null before it.
ResolveFromSubdomain(slug, port) ==
    subOut' = [host |-> WwwHost(slug, port), slug |-> slug, port |-> port,
               looked |-> ExtractSubdomain(WwwHost(slug, port))]

\* Longest Host header tried as a whole.
MaxHostLen == 5

\* Host headers of any form: letters, dots, the letters of the base domain and
\* the colon of a port.
HostChars == {"a", ".", "f", "c", ":"}
Hosts == UNION {[1..n -> HostChars] : n \in 1..MaxHostLen}

\* resolveFromSubdomain on one request with any host header.
ResolveFromSubdomainHost(host) ==
    /\ subOut = NoSub
    /\ subOut' = [host |-> host, slug |-> Empty, port |-> Empty,
                  looked |-> ExtractSubdomain(host)]

SubIdle == subOut = NoSub

\* ------------------------------------------------------------------------
\* Concurrent TenantService.create and TenantService.update
\* ------------------------------------------------------------------------

VARIABLES
    tcColl,   \* the tenants collection: a sequence of documents, _id = position
    tcProc,   \* administrator -> its operation in progress
    tcKeys    \* API keys generated so far

tcVars == <<tcColl, tcProc, tcKeys>>

\* Administrators working at the same time, one operation each.
NumAdmins == 2
Admins == 1..NumAdmins

\* The _id values an update is asked for: those of the documents there can be.
TenantIds == 1..(NumAdmins + 1)

SlugNames == {"x", "y", "z"}
DomainNames == {"d", "e"}

CreateDtos == [slug : SlugNames, domains : SUBSET DomainNames]
UpdateDtos == [domains : SUBSET DomainNames]

TcIdle == [pc |-> "idle", op |-> "none", id |-> 0, slug |-> "x", domains |-> {},
           outcome |-> "none"]

\* tenantModel.findOne({slug})
SlugTaken(coll, slug) == \E i \in DOMAIN coll : coll[i].slug = slug

\* tenantModel.findOne({_id: {$ne: id}, domains: {$in: domains}}); id 0 for
\* the query of create, which excludes no document.
DomainConflict(coll, id, domains) ==
    \E i \in DOMAIN coll : i # id /\ coll[i].domains \cap domains # {}

\* TenantService.create: findOne({slug}), ConflictException when it finds one.
TcCreateBegin(p, dto) ==
    /\ tcProc[p].pc = "idle"
    /\ tcProc' = [tcProc EXCEPT ![p] =
           IF SlugTaken(tcColl, dto.slug)
           THEN [TcIdle EXCEPT !.pc = "done", !.op = "create", !.slug = dto.slug,
                               !.domains = dto.domains, !.outcome = "conflict"]
           ELSE [TcIdle EXCEPT !.pc = IF dto.domains # {} THEN "domains" ELSE "save",
                               !.op = "create", !.slug = dto.slug,
                               !.domains = dto.domains]]
    /\ UNCHANGED <<tcColl, tcKeys>>

\* TenantService.update: findById, NotFoundException when there is none.
TcUpdateBegin(p, id, dto) ==
    /\ tcProc[p].pc = "idle"
    /\ tcProc' = [tcProc EXCEPT ![p] =
           IF id \notin DOMAIN tcColl
           THEN [TcIdle EXCEPT !.pc = "done", !.op = "update", !.id = id,
                               !.domains = dto.domains, !.outcome = "notfound"]
           ELSE [TcIdle EXCEPT !.pc = IF dto.domains # {} THEN "domains" ELSE "save",
                               !.op = "update", !.id = id, !.slug = tcColl[id].slug,
                               !.domains = dto.domains]]
    /\ UNCHANGED <<tcColl, tcKeys>>

\* create and update: the query for a domain in use, ConflictException when
\* it finds a document.
TcCheckDomains(p) ==
    /\ tcProc[p].pc = "domains"
    /\ tcProc' = [tcProc EXCEPT ![p] =
           IF DomainConflict(tcColl, tcProc[p].id, tcProc[p].domains)
           THEN [@ EXCEPT !.pc = "done", !.outcome = "conflict"]
           ELSE [@ EXCEPT !.pc = "save"]]
    /\ UNCHANGED <<tcColl, tcKeys>>

\* create: new tenantModel({...createDto, apiKey: generateApiKey()}).save().
\* The insert is refused by the unique index on slug when the slug is there.
TcCreateSave(p) ==
    /\ tcProc[p].pc = "save" /\ tcProc[p].op = "create"
    /\ IF SlugTaken(tcColl, tcProc[p].slug)
       THEN /\ tcProc' = [tcProc EXCEPT ![p] = [@ EXCEPT !.pc = "done",
                                                        !.outcome = "duplicateKey"]]
            /\ UNCHANGED tcColl
       ELSE /\ tcColl' = Append(tcColl, [slug |-> tcProc[p].slug,
                                         domains |-> tcProc[p].domains,
                                         apiKey |-> tcKeys + 1])
            /\ tcProc' = [tcProc EXCEPT ![p] = [@ EXCEPT !.pc = "done",
                                                        !.id = Len(tcColl) + 1,
                                                        !.outcome = "ok"]]
    /\ tcKeys' = tcKeys + 1

\* update: Object.assign(tenant, updateDto); tenant.save().
TcUpdateSave(p) ==
    /\ tcProc[p].pc = "save" /\ tcProc[p].op = "update"
    /\ tcColl' = [tcColl EXCEPT ![tcProc[p].id].domains = tcProc[p].domains]
    /\ tcProc' = [tcProc EXCEPT ![p] = [@ EXCEPT !.pc = "done", !.outcome = "ok"]]
    /\ UNCHANGED tcKeys

\* One tenant exists, created before the administrators start.
TcInit ==
    /\ tcColl = <<[slug |-> "x", domains |-> {}, apiKey |-> 0]>>
    /\ tcProc = [p \in Admins |-> TcIdle]
    /\ tcKeys = 0

\* ------------------------------------------------------------------------
\* Resolution of a tenant that has just been created
\* ------------------------------------------------------------------------

VARIABLES
    newCreated,  \* create(dto) of tenant B has completed
    newSeen,     \* the resolve() under way began after that
    newMissed    \* the request that found nothing right before the creation

newVars == <<newCreated, newSeen, newMissed>>

\* No document: a record that no lookup matches.
AbsentRec == [slug |-> Empty, apiKey |-> Empty, domains |-> {}, isActive |-> FALSE]

\* The directory before tenant B is created.
DirBeforeCreate == [InitDir EXCEPT !["B"] = AbsentRec]

\* Requests that present the slug, the API key or the domain tenant B is
\* created with.
NewRequests ==
    {[NoReq EXCEPT !.header = h] : h \in {InitDir["B"].slug, InitDir["B"].apiKey}}
    \cup {[NoReq EXCEPT !.host = h] :
             h \in {Www \o <<".">> \o InitDir["B"].slug \o <<".">> \o BaseDomain}
                   \cup InitDir["B"].domains}

\* TenantService.create: tenant.save() of the new document; the cache is not
\* touched.
TenantServiceCreate ==
    /\ ~newCreated
    /\ admPc = "idle"
    /\ dir' = [dir EXCEPT !["B"] = InitDir["B"]]
    /\ newCreated' = TRUE
    /\ newMissed' = IF resPc = "done" /\ resCount > 0 /\ resResult = NoResolution
                    THEN resReq ELSE NoReq
    /\ UNCHANGED <<newSeen, cache, resPc, resReq, resStrat, resFound, resTried,
                   resResult, resCount, resAfter, admPc, admOp, admDoc, admCount,
                   deactivated, retired, resRetired, resGetErr>>

\* resolve() of a request, noting whether the tenant had been created.
ResolveNew(req) ==
    /\ ResolveBegin(req)
    /\ newSeen' = newCreated
    /\ UNCHANGED <<newCreated, newMissed>>

NewIdle ==
    /\ newCreated = FALSE
    /\ newSeen = FALSE
    /\ newMissed = NoReq

\* ------------------------------------------------------------------------
\* Retrying after a rejection (resetAt, retryAfter)
\* ------------------------------------------------------------------------

VARIABLES
    rtyOpen,     \* rejections since which the tenant has had no admission
    rtyRetried   \* the last result of a call made at or after the reset time
                 \* of one of them

rtyVars == <<rtyOpen, rtyRetried>>

\* Calls of the behaviours with retries.
NumRetryCalls == 3

\* Largest value of the clock in them.
MaxRetryTime == 4

NoEntry == [none |-> TRUE]

\* Time passes between a rejection and the retry.
RetryTick ==
    /\ rlClock < MaxRetryTime
    /\ rlClock' = rlClock + 1
    /\ UNCHANGED <<zset, pexpire, rlCall, rlLog, rlSeq>>

\* The bookkeeping for the result e that checkAndConsume has just returned:
\* e is a retry if its Date.now() is at or after resetAt (seconds) of an open
\* rejection of its tenant; an admission closes the tenant's rejections, a
\* rejection is added to them.
RetryNote(e) ==
    /\ rtyRetried' =
           IF \E r \in rtyOpen : r.tenant = e.tenant /\ e.at >= r.resetAt * MsPerSec
           THEN e ELSE rtyRetried
    /\ rtyOpen' =
           IF e.allowed THEN {r \in rtyOpen : r.tenant # e.tenant}
           ELSE rtyOpen \cup {[tenant |-> e.tenant, resetAt |-> e.resetAt]}

\* checkAndConsume returning the script's result, or failing open.
RetryEval(c) ==
    /\ CheckAndConsumeEval(c)
    /\ \E e \in rlLog' \ rlLog : RetryNote(e)

RetryFail(c) ==
    /\ CheckAndConsumeFail(c)
    /\ \E e \in rlLog' \ rlLog : RetryNote(e)

RtyIdle ==
    /\ rtyOpen = {}
    /\ rtyRetried = NoEntry

vars == <<rlVars, gwVars, ctxVars, resVars, aggVars, rtVars, useVars, payVars, histVars, pipeVars, subVars, tcVars, newVars, rtyVars>>

InitRL == RLInit /\ GWIdle /\ CtxInit /\ ResInit /\ AggIdle /\ RtIdle /\ UseIdle /\ PayIdle /\ HistIdle /\ PipeInit /\ SubIdle /\ TcInit /\ NewIdle /\ RtyIdle

NextRL ==
    \/ \E c \in Calls, t \in Tenants, r \in Rand :
           CheckAndConsumeBegin(c, t, r) /\ UNCHANGED <<gwVars, ctxVars, resVars, aggVars, rtVars, useVars, payVars, histVars, pipeVars, subVars, tcVars, newVars, rtyVars>>
    \/ \E c \in Calls : CheckAndConsumeEval(c) /\ UNCHANGED <<gwVars, ctxVars, resVars, aggVars, rtVars, useVars, payVars, histVars, pipeVars, subVars, tcVars, newVars, rtyVars>>
    \/ \E c \in Calls : CheckAndConsumeFail(c) /\ UNCHANGED <<gwVars, ctxVars, resVars, aggVars, rtVars, useVars, payVars, histVars, pipeVars, subVars, tcVars, newVars, rtyVars>>
    \/ RLTick /\ UNCHANGED <<gwVars, ctxVars, resVars, aggVars, rtVars, useVars, payVars, histVars, pipeVars, subVars, tcVars, newVars, rtyVars>>

SpecRL == InitRL /\ [][NextRL]_vars

\* The rate limiter over a time longer than the expiry of a key.
NextExp ==
    \/ \E c \in 1..NumExpCalls, t \in Tenants, r \in Rand : CheckAndConsumeBegin(c, t, r) /\ UNCHANGED <<gwVars, ctxVars, resVars, aggVars, rtVars, useVars, payVars, histVars, pipeVars, subVars, tcVars, newVars, rtyVars>>
    \/ \E c \in Calls : CheckAndConsumeEval(c) /\ UNCHANGED <<gwVars, ctxVars, resVars, aggVars, rtVars, useVars, payVars, histVars, pipeVars, subVars, tcVars, newVars, rtyVars>>
    \/ \E c \in Calls : CheckAndConsumeFail(c) /\ UNCHANGED <<gwVars, ctxVars, resVars, aggVars, rtVars, useVars, payVars, histVars, pipeVars, subVars, tcVars, newVars, rtyVars>>
    \/ RLTickLong /\ UNCHANGED <<gwVars, ctxVars, resVars, aggVars, rtVars, useVars, payVars, histVars, pipeVars, subVars, tcVars, newVars, rtyVars>>

SpecExp == InitRL /\ [][NextExp]_vars

\* The rate limiter with rejected requests retried.
NextRetry ==
    \/ \E c \in 1..NumRetryCalls, t \in Tenants, r \in Rand : CheckAndConsumeBegin(c, t, r) /\ UNCHANGED <<gwVars, ctxVars, resVars, aggVars, rtVars, useVars, payVars, histVars, pipeVars, subVars, tcVars, newVars, rtyVars>>
    \/ \E c \in Calls : RetryEval(c) /\ UNCHANGED <<gwVars, ctxVars, resVars, aggVars, rtVars, useVars, payVars, histVars, pipeVars, subVars, tcVars, newVars>>
    \/ \E c \in Calls : RetryFail(c) /\ UNCHANGED <<gwVars, ctxVars, resVars, aggVars, rtVars, useVars, payVars, histVars, pipeVars, subVars, tcVars, newVars>>
    \/ RetryTick /\ UNCHANGED <<gwVars, ctxVars, resVars, aggVars, rtVars, useVars, payVars, histVars, pipeVars, subVars, tcVars, newVars, rtyVars>>

SpecRetry == InitRL /\ [][NextRetry]_vars



InitGW == RLInit /\ GWInit /\ CtxInit /\ ResInit /\ AggIdle /\ RtIdle /\ UseIdle /\ PayIdle /\ HistIdle /\ PipeInit /\ SubIdle /\ TcInit /\ NewIdle /\ RtyIdle

NextGW ==
    \/ \E ctx \in GwContexts, data \in CreateData : Create(ctx, data) /\ UNCHANGED <<rlVars, ctxVars, resVars, aggVars, rtVars, useVars, payVars, histVars, pipeVars, subVars, tcVars, newVars, rtyVars>>
    \/ \E ctx \in GwContexts, d1 \in CreateData, d2 \in CreateData :
           CreateMany(ctx, <<d1, d2>>) /\ UNCHANGED <<rlVars, ctxVars, resVars, aggVars, rtVars, useVars, payVars, histVars, pipeVars, subVars, tcVars, newVars, rtyVars>>
    \/ \E ctx \in GwContexts : \E f \in FiltersIn(ctx), incl \in BOOLEAN : FindOne(ctx, f, incl) /\ UNCHANGED <<rlVars, ctxVars, resVars, aggVars, rtVars, useVars, payVars, histVars, pipeVars, subVars, tcVars, newVars, rtyVars>>
    \/ \E ctx \in GwContexts, id \in DocIds, incl \in BOOLEAN : FindById(ctx, id, incl) /\ UNCHANGED <<rlVars, ctxVars, resVars, aggVars, rtVars, useVars, payVars, histVars, pipeVars, subVars, tcVars, newVars, rtyVars>>
    \/ \E ctx \in GwContexts : \E f \in FiltersIn(ctx), incl \in BOOLEAN : Find(ctx, f, incl) /\ UNCHANGED <<rlVars, ctxVars, resVars, aggVars, rtVars, useVars, payVars, histVars, pipeVars, subVars, tcVars, newVars, rtyVars>>
    \/ \E ctx \in GwContexts : \E f \in FiltersIn(ctx), incl \in BOOLEAN, pl \in {<<1, 20>>, <<2, 1>>} :
           FindPaginated(ctx, f, incl, pl[1], pl[2]) /\ UNCHANGED <<rlVars, ctxVars, resVars, aggVars, rtVars, useVars, payVars, histVars, pipeVars, subVars, tcVars, newVars, rtyVars>>
    \/ \E ctx \in GwContexts : \E f \in FiltersIn(ctx), incl \in BOOLEAN : Count(ctx, f, incl) /\ UNCHANGED <<rlVars, ctxVars, resVars, aggVars, rtVars, useVars, payVars, histVars, pipeVars, subVars, tcVars, newVars, rtyVars>>
    \/ \E ctx \in GwContexts : \E f \in FiltersIn(ctx) : Exists(ctx, f) /\ UNCHANGED <<rlVars, ctxVars, resVars, aggVars, rtVars, useVars, payVars, histVars, pipeVars, subVars, tcVars, newVars, rtyVars>>
    \/ \E ctx \in GwContexts : \E f \in FiltersIn(ctx) : FindDeleted(ctx, f) /\ UNCHANGED <<rlVars, ctxVars, resVars, aggVars, rtVars, useVars, payVars, histVars, pipeVars, subVars, tcVars, newVars, rtyVars>>
    \/ \E ctx \in GwContexts : \E a \in UpdateArgs(ctx) : UpdateOne(ctx, a[1], a[2]) /\ UNCHANGED <<rlVars, ctxVars, resVars, aggVars, rtVars, useVars, payVars, histVars, pipeVars, subVars, tcVars, newVars, rtyVars>>
    \/ \E ctx \in GwContexts, id \in DocIds, u \in Updates : UpdateById(ctx, id, u) /\ UNCHANGED <<rlVars, ctxVars, resVars, aggVars, rtVars, useVars, payVars, histVars, pipeVars, subVars, tcVars, newVars, rtyVars>>
    \/ \E ctx \in GwContexts : \E a \in UpdateArgs(ctx) : UpdateMany(ctx, a[1], a[2]) /\ UNCHANGED <<rlVars, ctxVars, resVars, aggVars, rtVars, useVars, payVars, histVars, pipeVars, subVars, tcVars, newVars, rtyVars>>
    \/ \E ctx \in GwContexts, id \in DocIds, by \in {NULL, Actor} : SoftDelete(ctx, id, by) /\ UNCHANGED <<rlVars, ctxVars, resVars, aggVars, rtVars, useVars, payVars, histVars, pipeVars, subVars, tcVars, newVars, rtyVars>>
    \/ \E ctx \in GwContexts : \E f \in FiltersIn(ctx), by \in {NULL, Actor} : SoftDeleteMany(ctx, f, by) /\ UNCHANGED <<rlVars, ctxVars, resVars, aggVars, rtVars, useVars, payVars, histVars, pipeVars, subVars, tcVars, newVars, rtyVars>>
    \/ \E ctx \in GwContexts, id \in DocIds : Restore(ctx, id) /\ UNCHANGED <<rlVars, ctxVars, resVars, aggVars, rtVars, useVars, payVars, histVars, pipeVars, subVars, tcVars, newVars, rtyVars>>
    \/ \E ctx \in GwContexts, id \in DocIds : HardDelete(ctx, id) /\ UNCHANGED <<rlVars, ctxVars, resVars, aggVars, rtVars, useVars, payVars, histVars, pipeVars, subVars, tcVars, newVars, rtyVars>>
    \/ \E ctx \in GwContexts : \E f \in FiltersIn(ctx) : HardDeleteMany(ctx, f) /\ UNCHANGED <<rlVars, ctxVars, resVars, aggVars, rtVars, useVars, payVars, histVars, pipeVars, subVars, tcVars, newVars, rtyVars>>

SpecGW == InitGW /\ [][NextGW]_vars

InitCtx == RLInit /\ GWIdle /\ CtxInit /\ ResInit /\ AggIdle /\ RtIdle /\ UseIdle /\ PayIdle /\ HistIdle /\ PipeInit /\ SubIdle /\ TcInit /\ NewIdle /\ RtyIdle

NextCtx ==
    \/ \E r \in Reqs, route \in {"protected", "skip"}, res \in ResolveResults :
           MiddlewareUse(r, route, res) /\ UNCHANGED <<rlVars, gwVars, resVars, aggVars, rtVars, useVars, payVars, histVars, pipeVars, subVars, tcVars, newVars, rtyVars>>
    \/ \E r \in Reqs : MiddlewareResolved(r) /\ UNCHANGED <<rlVars, gwVars, resVars, aggVars, rtVars, useVars, payVars, histVars, pipeVars, subVars, tcVars, newVars, rtyVars>>
    \/ \E r \in Reqs, more \in BOOLEAN : HandlerResume(r, more) /\ UNCHANGED <<rlVars, gwVars, resVars, aggVars, rtVars, useVars, payVars, histVars, pipeVars, subVars, tcVars, newVars, rtyVars>>
    \/ \E t \in Tenants, throws \in BOOLEAN : RunScope(t, "header", throws) /\ UNCHANGED <<rlVars, gwVars, resVars, aggVars, rtVars, useVars, payVars, histVars, pipeVars, subVars, tcVars, newVars, rtyVars>>
    \/ OutsideScope /\ UNCHANGED <<rlVars, gwVars, resVars, aggVars, rtVars, useVars, payVars, histVars, pipeVars, subVars, tcVars, newVars, rtyVars>>

SpecCtx == InitCtx /\ [][NextCtx]_vars

InitRes == RLInit /\ GWIdle /\ CtxInit /\ ResInit /\ AggIdle /\ RtIdle /\ UseIdle /\ PayIdle /\ HistIdle /\ PipeInit /\ SubIdle /\ TcInit /\ NewIdle /\ RtyIdle

NextRes ==
    \/ \E req \in Requests : ResolveBegin(req) /\ UNCHANGED <<rlVars, gwVars, ctxVars, aggVars, rtVars, useVars, payVars, histVars, pipeVars, subVars, tcVars, newVars, rtyVars>>
    \/ FindWithCacheGet /\ UNCHANGED <<rlVars, gwVars, ctxVars, aggVars, rtVars, useVars, payVars, histVars, pipeVars, subVars, tcVars, newVars, rtyVars>>
    \/ FindWithCacheGetError /\ UNCHANGED <<rlVars, gwVars, ctxVars, aggVars, rtVars, useVars, payVars, histVars, pipeVars, subVars, tcVars, newVars, rtyVars>>
    \/ \E t \in Tenants : FindWithCacheQuery(t) /\ UNCHANGED <<rlVars, gwVars, ctxVars, aggVars, rtVars, useVars, payVars, histVars, pipeVars, subVars, tcVars, newVars, rtyVars>>
    \/ \E ok \in BOOLEAN : FindWithCacheSetex(ok) /\ UNCHANGED <<rlVars, gwVars, ctxVars, aggVars, rtVars, useVars, payVars, histVars, pipeVars, subVars, tcVars, newVars, rtyVars>>
    \/ \E key \in DOMAIN cache : CacheExpire(key) /\ UNCHANGED <<rlVars, gwVars, ctxVars, aggVars, rtVars, useVars, payVars, histVars, pipeVars, subVars, tcVars, newVars, rtyVars>>
    \/ \E op \in {"deactivate", "reactivate", "regenerateApiKey", "update"}, id \in Tenants :
           AdminLoad(op, id) /\ UNCHANGED <<rlVars, gwVars, ctxVars, aggVars, rtVars, useVars, payVars, histVars, pipeVars, subVars, tcVars, newVars, rtyVars>>
    \/ DeactivateSave /\ UNCHANGED <<rlVars, gwVars, ctxVars, aggVars, rtVars, useVars, payVars, histVars, pipeVars, subVars, tcVars, newVars, rtyVars>>
    \/ \E ok \in BOOLEAN : DeactivateInvalidate(ok) /\ UNCHANGED <<rlVars, gwVars, ctxVars, aggVars, rtVars, useVars, payVars, histVars, pipeVars, subVars, tcVars, newVars, rtyVars>>
    \/ ReactivateSave /\ UNCHANGED <<rlVars, gwVars, ctxVars, aggVars, rtVars, useVars, payVars, histVars, pipeVars, subVars, tcVars, newVars, rtyVars>>
    \/ \E ok \in BOOLEAN : RegenerateInvalidate(ok) /\ UNCHANGED <<rlVars, gwVars, ctxVars, aggVars, rtVars, useVars, payVars, histVars, pipeVars, subVars, tcVars, newVars, rtyVars>>
    \/ RegenerateSave /\ UNCHANGED <<rlVars, gwVars, ctxVars, aggVars, rtVars, useVars, payVars, histVars, pipeVars, subVars, tcVars, newVars, rtyVars>>
    \/ UpdateCheckDomains /\ UNCHANGED <<rlVars, gwVars, ctxVars, aggVars, rtVars, useVars, payVars, histVars, pipeVars, subVars, tcVars, newVars, rtyVars>>
    \/ UpdateSave /\ UNCHANGED <<rlVars, gwVars, ctxVars, aggVars, rtVars, useVars, payVars, histVars, pipeVars, subVars, tcVars, newVars, rtyVars>>
    \/ \E ok \in BOOLEAN : UpdateInvalidate(ok) /\ UNCHANGED <<rlVars, gwVars, ctxVars, aggVars, rtVars, useVars, payVars, histVars, pipeVars, subVars, tcVars, newVars, rtyVars>>

SpecRes == InitRes /\ [][NextRes]_vars

InitAgg == RLInit /\ GWIdle /\ CtxInit /\ ResInit /\ AggInit /\ RtIdle /\ UseIdle /\ PayIdle /\ HistIdle /\ PipeInit /\ SubIdle /\ TcInit /\ NewIdle /\ RtyIdle

NextAgg == Aggregate /\ UNCHANGED <<rlVars, gwVars, ctxVars, resVars, rtVars, useVars, payVars, histVars, pipeVars, subVars, tcVars, newVars, rtyVars>>

SpecAgg == InitAgg /\ [][NextAgg]_vars

InitRt == RLInit /\ GWIdle /\ CtxInit /\ ResInit /\ AggIdle /\ RtInit /\ UseIdle /\ PayIdle /\ HistIdle /\ PipeInit /\ SubIdle /\ TcInit /\ NewIdle /\ RtyIdle

NextRt ==
    \/ FindWithCacheMissed /\ UNCHANGED <<rlVars, gwVars, ctxVars, resVars, aggVars, useVars, payVars, histVars, pipeVars, subVars, tcVars, newVars, rtyVars>>
    \/ FindWithCacheHitAgain /\ UNCHANGED <<rlVars, gwVars, ctxVars, resVars, aggVars, useVars, payVars, histVars, pipeVars, subVars, tcVars, newVars, rtyVars>>

SpecRt == InitRt /\ [][NextRt]_vars

InitUse == RLInit /\ GWIdle /\ CtxInit /\ ResInit /\ AggIdle /\ RtIdle /\ UseInit /\ PayIdle /\ HistIdle /\ PipeInit /\ SubIdle /\ TcInit /\ NewIdle /\ RtyIdle

NextUse ==
    \/ \E c \in Callers, t \in Tenants, m \in EventMetrics : IncrementBegin(c, t, m, 1) /\ UNCHANGED <<rlVars, gwVars, ctxVars, resVars, aggVars, rtVars, payVars, histVars, pipeVars, subVars, tcVars, newVars, rtyVars>>
    \/ \E c \in Callers : IncrementExec(c) /\ UNCHANGED <<rlVars, gwVars, ctxVars, resVars, aggVars, rtVars, payVars, histVars, pipeVars, subVars, tcVars, newVars, rtyVars>>
    \/ \E c \in Callers : IncrementFail(c) /\ UNCHANGED <<rlVars, gwVars, ctxVars, resVars, aggVars, rtVars, payVars, histVars, pipeVars, subVars, tcVars, newVars, rtyVars>>
    \/ \E t \in Tenants, p \in Periods, ok \in BOOLEAN : GetSummary(t, p, ok) /\ UNCHANGED <<rlVars, gwVars, ctxVars, resVars, aggVars, rtVars, payVars, histVars, pipeVars, subVars, tcVars, newVars, rtyVars>>
    \/ NextMonth /\ UNCHANGED <<rlVars, gwVars, ctxVars, resVars, aggVars, rtVars, payVars, histVars, pipeVars, subVars, tcVars, newVars, rtyVars>>

SpecUse == InitUse /\ [][NextUse]_vars

\* The meter under calls with any amount.
InitTrack == RLInit /\ GWIdle /\ CtxInit /\ ResInit /\ AggIdle /\ RtIdle /\ UseIdle /\ PayIdle /\ HistIdle /\ PipeInit /\ SubIdle /\ TcInit /\ NewIdle /\ RtyIdle

NextTrack ==
    \/ \E c \in Callers, t \in Tenants, m \in Metrics, a \in Amounts :
           IncrementBegin(c, t, m, a) /\ UNCHANGED <<rlVars, gwVars, ctxVars, resVars, aggVars, rtVars, payVars, histVars, pipeVars, subVars, tcVars, newVars, rtyVars>>
    \/ \E c \in Callers, t \in Tenants : TrackApiCall(c, t) /\ UNCHANGED <<rlVars, gwVars, ctxVars, resVars, aggVars, rtVars, payVars, histVars, pipeVars, subVars, tcVars, newVars, rtyVars>>
    \/ \E c \in Callers, t \in Tenants : TrackTransaction(c, t) /\ UNCHANGED <<rlVars, gwVars, ctxVars, resVars, aggVars, rtVars, payVars, histVars, pipeVars, subVars, tcVars, newVars, rtyVars>>
    \/ \E c \in Callers, t \in Tenants, a \in Amounts : TrackStorage(c, t, a) /\ UNCHANGED <<rlVars, gwVars, ctxVars, resVars, aggVars, rtVars, payVars, histVars, pipeVars, subVars, tcVars, newVars, rtyVars>>
    \/ \E c \in Callers, t \in Tenants, a \in Amounts : TrackBandwidth(c, t, a) /\ UNCHANGED <<rlVars, gwVars, ctxVars, resVars, aggVars, rtVars, payVars, histVars, pipeVars, subVars, tcVars, newVars, rtyVars>>
    \/ \E c \in Callers : IncrementExec(c) /\ UNCHANGED <<rlVars, gwVars, ctxVars, resVars, aggVars, rtVars, payVars, histVars, pipeVars, subVars, tcVars, newVars, rtyVars>>
    \/ \E c \in Callers : IncrementFail(c) /\ UNCHANGED <<rlVars, gwVars, ctxVars, resVars, aggVars, rtVars, payVars, histVars, pipeVars, subVars, tcVars, newVars, rtyVars>>

SpecTrack == InitTrack /\ [][NextTrack]_vars

InitPay == RLInit /\ GWIdle /\ CtxInit /\ ResInit /\ AggIdle /\ RtIdle /\ UseInit /\ PayIdle /\ HistIdle /\ PipeInit /\ SubIdle /\ TcInit /\ NewIdle /\ RtyIdle

NextPay ==
    \/ \E ctx \in GwContexts, data \in CreateData :
           PaymentServiceCreate(ctx, data) /\ UNCHANGED <<rlVars, ctxVars, resVars, aggVars, rtVars, histVars, pipeVars, subVars, tcVars, newVars, rtyVars>>
    \/ \E t \in Tenants, ok \in BOOLEAN :
           HasExceededTransactionLimit(t, ok) /\ UNCHANGED <<rlVars, ctxVars, resVars, aggVars, rtVars, histVars, pipeVars, subVars, tcVars, newVars, rtyVars>>
    \/ NextMonth /\ UNCHANGED <<rlVars, gwVars, ctxVars, resVars, aggVars, rtVars, payVars, histVars, pipeVars, subVars, tcVars, newVars, rtyVars>>

SpecPay == InitPay /\ [][NextPay]_vars

InitHist == RLInit /\ GWIdle /\ CtxInit /\ ResInit /\ AggIdle /\ RtIdle /\ UseIdle /\ PayIdle /\ HistInit /\ PipeInit /\ SubIdle /\ TcInit /\ NewIdle /\ RtyIdle

NextHist ==
    \/ \E c \in Callers, t \in Tenants : TrackTransaction(c, t) /\ UNCHANGED histVars /\ UNCHANGED <<rlVars, gwVars, ctxVars, resVars, aggVars, rtVars, payVars, pipeVars, subVars, tcVars, newVars, rtyVars>>
    \/ \E c \in Callers : IncrementExec(c) /\ UNCHANGED histVars /\ UNCHANGED <<rlVars, gwVars, ctxVars, resVars, aggVars, rtVars, payVars, pipeVars, subVars, tcVars, newVars, rtyVars>>
    \/ NextMonth /\ UNCHANGED histVars /\ UNCHANGED <<rlVars, gwVars, ctxVars, resVars, aggVars, rtVars, payVars, pipeVars, subVars, tcVars, newVars, rtyVars>>
    \/ \E t \in Tenants, n \in 1..MaxMonths, bad \in SUBSET Periods : GetHistory(t, n, bad) /\ UNCHANGED <<rlVars, gwVars, ctxVars, resVars, aggVars, rtVars, payVars, pipeVars, subVars, tcVars, newVars, rtyVars>>

SpecHist == InitHist /\ [][NextHist]_vars

InitPipe == RLInit /\ GWIdle /\ CtxInit /\ ResInit /\ AggIdle /\ RtIdle /\ UseIdle /\ PayIdle /\ HistIdle /\ PipeInit /\ SubIdle /\ TcInit /\ NewIdle /\ RtyIdle

NextPipe ==
    \/ \E r \in Reqs, route \in Routes, res \in ResolveResults : PipeMiddleware(r, route, res) /\ UNCHANGED <<rlVars, gwVars, ctxVars, resVars, aggVars, rtVars, useVars, payVars, histVars, subVars, tcVars, newVars, rtyVars>>
    \/ \E r \in Reqs : PipeTenantGuard(r) /\ UNCHANGED <<rlVars, gwVars, ctxVars, resVars, aggVars, rtVars, useVars, payVars, histVars, subVars, tcVars, newVars, rtyVars>>
    \/ \E r \in Reqs, answer \in CheckAnswers : PipeRateLimitGuard(r, answer) /\ UNCHANGED <<rlVars, gwVars, ctxVars, resVars, aggVars, rtVars, useVars, payVars, histVars, subVars, tcVars, newVars, rtyVars>>
    \/ \E r \in Reqs, g \in BOOLEAN : PipeHandler(r, g) /\ UNCHANGED <<rlVars, gwVars, ctxVars, resVars, aggVars, rtVars, useVars, payVars, histVars, subVars, tcVars, newVars, rtyVars>>
    \/ \E r \in Reqs : PipeGateway(r) /\ UNCHANGED <<rlVars, gwVars, ctxVars, resVars, aggVars, rtVars, useVars, payVars, histVars, subVars, tcVars, newVars, rtyVars>>

SpecPipe == InitPipe /\ [][NextPipe]_vars

\* Requests through the guards, with the meter.
NextMeter ==
    \/ \E r \in Reqs, route \in Routes, res \in ResolveResults : PipeMiddleware(r, route, res) /\ UNCHANGED <<rlVars, gwVars, ctxVars, resVars, aggVars, rtVars, useVars, payVars, histVars, subVars, tcVars, newVars, rtyVars>>
    \/ \E r \in Reqs : PipeTenantGuard(r) /\ UNCHANGED <<rlVars, gwVars, ctxVars, resVars, aggVars, rtVars, useVars, payVars, histVars, subVars, tcVars, newVars, rtyVars>>
    \/ \E r \in Reqs, c \in Callers, answer \in CheckAnswers : RateLimitGuardCanActivate(r, c, answer) /\ UNCHANGED <<rlVars, gwVars, ctxVars, resVars, aggVars, rtVars, payVars, histVars, subVars, tcVars, newVars, rtyVars>>
    \/ \E r \in Reqs : PipeHandler(r, FALSE) /\ UNCHANGED <<rlVars, gwVars, ctxVars, resVars, aggVars, rtVars, useVars, payVars, histVars, subVars, tcVars, newVars, rtyVars>>
    \/ \E c \in Callers : IncrementExec(c) /\ UNCHANGED <<rlVars, gwVars, ctxVars, resVars, aggVars, rtVars, payVars, histVars, pipeVars, subVars, tcVars, newVars, rtyVars>>
    \/ \E c \in Callers : IncrementFail(c) /\ UNCHANGED <<rlVars, gwVars, ctxVars, resVars, aggVars, rtVars, payVars, histVars, pipeVars, subVars, tcVars, newVars, rtyVars>>

SpecMeter == InitPipe /\ [][NextMeter]_vars


InitSub == RLInit /\ GWIdle /\ CtxInit /\ ResInit /\ AggIdle /\ RtIdle /\ UseIdle /\ PayIdle /\ HistIdle /\ PipeInit /\ SubIdle /\ TcInit /\ NewIdle /\ RtyIdle

NextSub ==
    \E slug \in Slugs, port \in Ports : ResolveFromSubdomain(slug, port) /\ UNCHANGED <<rlVars, gwVars, ctxVars, resVars, aggVars, rtVars, useVars, payVars, histVars, pipeVars, tcVars, newVars, rtyVars>>

SpecSub == InitSub /\ [][NextSub]_vars

\* The subdomain strategy on host headers of any form.
NextHost ==
    \E host \in Hosts : ResolveFromSubdomainHost(host) /\ UNCHANGED <<rlVars, gwVars, ctxVars, resVars, aggVars, rtVars, useVars, payVars, histVars, pipeVars, tcVars, newVars, rtyVars>>

SpecHost == InitSub /\ [][NextHost]_vars


InitHdr ==
    /\ RLInit /\ GWIdle /\ CtxInit /\ AggIdle /\ RtIdle /\ UseIdle /\ PayIdle
    /\ HistIdle /\ PipeInit /\ SubIdle /\ TcInit
    /\ dir \in {InitDir, OverlapDir} /\ ResIdle
    /\ NewIdle
    /\ RtyIdle

NextHdr ==
    \/ \E req \in HeaderRequests : ResolveBegin(req) /\ UNCHANGED <<rlVars, gwVars, ctxVars, aggVars, rtVars, useVars, payVars, histVars, pipeVars, subVars, tcVars, newVars, rtyVars>>
    \/ FindWithCacheGet /\ UNCHANGED <<rlVars, gwVars, ctxVars, aggVars, rtVars, useVars, payVars, histVars, pipeVars, subVars, tcVars, newVars, rtyVars>>
    \/ FindWithCacheGetError /\ UNCHANGED <<rlVars, gwVars, ctxVars, aggVars, rtVars, useVars, payVars, histVars, pipeVars, subVars, tcVars, newVars, rtyVars>>
    \/ \E t \in Tenants : FindWithCacheQuery(t) /\ UNCHANGED <<rlVars, gwVars, ctxVars, aggVars, rtVars, useVars, payVars, histVars, pipeVars, subVars, tcVars, newVars, rtyVars>>
    \/ \E ok \in BOOLEAN : FindWithCacheSetex(ok) /\ UNCHANGED <<rlVars, gwVars, ctxVars, aggVars, rtVars, useVars, payVars, histVars, pipeVars, subVars, tcVars, newVars, rtyVars>>
    \/ \E key \in DOMAIN cache : CacheExpire(key) /\ UNCHANGED <<rlVars, gwVars, ctxVars, aggVars, rtVars, useVars, payVars, histVars, pipeVars, subVars, tcVars, newVars, rtyVars>>

SpecHdr == InitHdr /\ [][NextHdr]_vars

\* Lookups before and after the creation of tenant B.
InitNew ==
    /\ RLInit /\ GWIdle /\ CtxInit /\ AggIdle /\ RtIdle /\ UseIdle /\ PayIdle
    /\ HistIdle /\ PipeInit /\ SubIdle /\ TcInit /\ NewIdle
    /\ dir = DirBeforeCreate /\ ResIdle
    /\ RtyIdle

NextNew ==
    \/ \E req \in NewRequests : ResolveNew(req) /\ UNCHANGED <<rlVars, gwVars, ctxVars, aggVars, rtVars, useVars, payVars, histVars, pipeVars, subVars, tcVars, rtyVars>>
    \/ FindWithCacheGet /\ UNCHANGED <<rlVars, gwVars, ctxVars, aggVars, rtVars, useVars, payVars, histVars, pipeVars, subVars, tcVars, newVars, rtyVars>>
    \/ FindWithCacheGetError /\ UNCHANGED <<rlVars, gwVars, ctxVars, aggVars, rtVars, useVars, payVars, histVars, pipeVars, subVars, tcVars, newVars, rtyVars>>
    \/ \E t \in Tenants : FindWithCacheQuery(t) /\ UNCHANGED <<rlVars, gwVars, ctxVars, aggVars, rtVars, useVars, payVars, histVars, pipeVars, subVars, tcVars, newVars, rtyVars>>
    \/ \E ok \in BOOLEAN : FindWithCacheSetex(ok) /\ UNCHANGED <<rlVars, gwVars, ctxVars, aggVars, rtVars, useVars, payVars, histVars, pipeVars, subVars, tcVars, newVars, rtyVars>>
    \/ \E key \in DOMAIN cache : CacheExpire(key) /\ UNCHANGED <<rlVars, gwVars, ctxVars, aggVars, rtVars, useVars, payVars, histVars, pipeVars, subVars, tcVars, newVars, rtyVars>>
    \/ TenantServiceCreate /\ UNCHANGED <<rlVars, gwVars, ctxVars, aggVars, rtVars, useVars, payVars, histVars, pipeVars, subVars, tcVars, rtyVars>>

SpecNew == InitNew /\ [][NextNew]_vars

\* Requests with a claim that names no active tenant.
InitClaim ==
    /\ RLInit /\ GWIdle /\ CtxInit /\ AggIdle /\ RtIdle /\ UseIdle /\ PayIdle
    /\ HistIdle /\ PipeInit /\ SubIdle /\ TcInit /\ NewIdle
    /\ dir = InactiveDir /\ ResIdle
    /\ RtyIdle

NextClaim ==
    \/ \E req \in ClaimRequests : ResolveBegin(req) /\ UNCHANGED <<rlVars, gwVars, ctxVars, aggVars, rtVars, useVars, payVars, histVars, pipeVars, subVars, tcVars, newVars, rtyVars>>
    \/ FindWithCacheGet /\ UNCHANGED <<rlVars, gwVars, ctxVars, aggVars, rtVars, useVars, payVars, histVars, pipeVars, subVars, tcVars, newVars, rtyVars>>
    \/ FindWithCacheGetError /\ UNCHANGED <<rlVars, gwVars, ctxVars, aggVars, rtVars, useVars, payVars, histVars, pipeVars, subVars, tcVars, newVars, rtyVars>>
    \/ \E t \in Tenants : FindTenantByIdQuery(t) /\ UNCHANGED <<rlVars, gwVars, ctxVars, aggVars, rtVars, useVars, payVars, histVars, pipeVars, subVars, tcVars, newVars, rtyVars>>
    \/ \E ok \in BOOLEAN : FindWithCacheSetex(ok) /\ UNCHANGED <<rlVars, gwVars, ctxVars, aggVars, rtVars, useVars, payVars, histVars, pipeVars, subVars, tcVars, newVars, rtyVars>>
    \/ \E key \in DOMAIN cache : CacheExpire(key) /\ UNCHANGED <<rlVars, gwVars, ctxVars, aggVars, rtVars, useVars, payVars, histVars, pipeVars, subVars, tcVars, newVars, rtyVars>>

SpecClaim == InitClaim /\ [][NextClaim]_vars



InitTc == RLInit /\ GWIdle /\ CtxInit /\ ResInit /\ AggIdle /\ RtIdle /\ UseIdle /\ PayIdle /\ HistIdle /\ PipeInit /\ SubIdle /\ TcInit /\ NewIdle /\ RtyIdle

NextTc ==
    \/ \E p \in Admins, dto \in CreateDtos : TcCreateBegin(p, dto) /\ UNCHANGED <<rlVars, gwVars, ctxVars, resVars, aggVars, rtVars, useVars, payVars, histVars, pipeVars, subVars, newVars, rtyVars>>
    \/ \E p \in Admins, id \in TenantIds, dto \in UpdateDtos : TcUpdateBegin(p, id, dto) /\ UNCHANGED <<rlVars, gwVars, ctxVars, resVars, aggVars, rtVars, useVars, payVars, histVars, pipeVars, subVars, newVars, rtyVars>>
    \/ \E p \in Admins : TcCheckDomains(p) /\ UNCHANGED <<rlVars, gwVars, ctxVars, resVars, aggVars, rtVars, useVars, payVars, histVars, pipeVars, subVars, newVars, rtyVars>>
    \/ \E p \in Admins : TcCreateSave(p) /\ UNCHANGED <<rlVars, gwVars, ctxVars, resVars, aggVars, rtVars, useVars, payVars, histVars, pipeVars, subVars, newVars, rtyVars>>
    \/ \E p \in Admins : TcUpdateSave(p) /\ UNCHANGED <<rlVars, gwVars, ctxVars, resVars, aggVars, rtVars, useVars, payVars, histVars, pipeVars, subVars, newVars, rtyVars>>

SpecTc == InitTc /\ [][NextTc]_vars

\* Every repository operation called outside any tenant scope.
InitNoCtx ==
    /\ RLInit /\ GWInit /\ CtxInit /\ ResInit /\ RtIdle
    /\ AggInit /\ aggCtx = NULL /\ Len(aggIn) <= 1
    /\ UseIdle /\ PayIdle /\ HistIdle /\ PipeInit /\ SubIdle /\ TcInit
    /\ NewIdle
    /\ RtyIdle

Deleters == {NULL, Actor, BadActor}

NextNoCtx ==
    \/ \E data \in CreateData : Create(NULL, data) /\ UNCHANGED <<rlVars, ctxVars, resVars, aggVars, rtVars, useVars, payVars, histVars, pipeVars, subVars, tcVars, newVars, rtyVars>>
    \/ \E d1 \in CreateData, d2 \in CreateData : CreateMany(NULL, <<d1, d2>>) /\ UNCHANGED <<rlVars, ctxVars, resVars, aggVars, rtVars, useVars, payVars, histVars, pipeVars, subVars, tcVars, newVars, rtyVars>>
    \/ \E f \in FiltersIn(NULL), incl \in BOOLEAN : FindOne(NULL, f, incl) /\ UNCHANGED <<rlVars, ctxVars, resVars, aggVars, rtVars, useVars, payVars, histVars, pipeVars, subVars, tcVars, newVars, rtyVars>>
    \/ \E id \in DocIds, incl \in BOOLEAN : FindById(NULL, id, incl) /\ UNCHANGED <<rlVars, ctxVars, resVars, aggVars, rtVars, useVars, payVars, histVars, pipeVars, subVars, tcVars, newVars, rtyVars>>
    \/ \E f \in FiltersIn(NULL), incl \in BOOLEAN : Find(NULL, f, incl) /\ UNCHANGED <<rlVars, ctxVars, resVars, aggVars, rtVars, useVars, payVars, histVars, pipeVars, subVars, tcVars, newVars, rtyVars>>
    \/ \E f \in FiltersIn(NULL), incl \in BOOLEAN : FindPaginated(NULL, f, incl, 1, 20) /\ UNCHANGED <<rlVars, ctxVars, resVars, aggVars, rtVars, useVars, payVars, histVars, pipeVars, subVars, tcVars, newVars, rtyVars>>
    \/ \E f \in FiltersIn(NULL), incl \in BOOLEAN : Count(NULL, f, incl) /\ UNCHANGED <<rlVars, ctxVars, resVars, aggVars, rtVars, useVars, payVars, histVars, pipeVars, subVars, tcVars, newVars, rtyVars>>
    \/ \E f \in FiltersIn(NULL) : Exists(NULL, f) /\ UNCHANGED <<rlVars, ctxVars, resVars, aggVars, rtVars, useVars, payVars, histVars, pipeVars, subVars, tcVars, newVars, rtyVars>>
    \/ \E f \in FiltersIn(NULL) : FindDeleted(NULL, f) /\ UNCHANGED <<rlVars, ctxVars, resVars, aggVars, rtVars, useVars, payVars, histVars, pipeVars, subVars, tcVars, newVars, rtyVars>>
    \/ \E a \in UpdateArgs(NULL) : UpdateOne(NULL, a[1], a[2]) /\ UNCHANGED <<rlVars, ctxVars, resVars, aggVars, rtVars, useVars, payVars, histVars, pipeVars, subVars, tcVars, newVars, rtyVars>>
    \/ \E id \in DocIds, u \in Updates : UpdateById(NULL, id, u) /\ UNCHANGED <<rlVars, ctxVars, resVars, aggVars, rtVars, useVars, payVars, histVars, pipeVars, subVars, tcVars, newVars, rtyVars>>
    \/ \E a \in UpdateArgs(NULL) : UpdateMany(NULL, a[1], a[2]) /\ UNCHANGED <<rlVars, ctxVars, resVars, aggVars, rtVars, useVars, payVars, histVars, pipeVars, subVars, tcVars, newVars, rtyVars>>
    \/ \E id \in DocIds, by \in Deleters : SoftDelete(NULL, id, by) /\ UNCHANGED <<rlVars, ctxVars, resVars, aggVars, rtVars, useVars, payVars, histVars, pipeVars, subVars, tcVars, newVars, rtyVars>>
    \/ \E f \in FiltersIn(NULL), by \in Deleters : SoftDeleteMany(NULL, f, by) /\ UNCHANGED <<rlVars, ctxVars, resVars, aggVars, rtVars, useVars, payVars, histVars, pipeVars, subVars, tcVars, newVars, rtyVars>>
    \/ \E id \in DocIds : Restore(NULL, id) /\ UNCHANGED <<rlVars, ctxVars, resVars, aggVars, rtVars, useVars, payVars, histVars, pipeVars, subVars, tcVars, newVars, rtyVars>>
    \/ \E id \in DocIds : HardDelete(NULL, id) /\ UNCHANGED <<rlVars, ctxVars, resVars, aggVars, rtVars, useVars, payVars, histVars, pipeVars, subVars, tcVars, newVars, rtyVars>>
    \/ \E f \in FiltersIn(NULL) : HardDeleteMany(NULL, f) /\ UNCHANGED <<rlVars, ctxVars, resVars, aggVars, rtVars, useVars, payVars, histVars, pipeVars, subVars, tcVars, newVars, rtyVars>>
    \/ Aggregate /\ UNCHANGED <<rlVars, gwVars, ctxVars, resVars, rtVars, useVars, payVars, histVars, pipeVars, subVars, tcVars, newVars, rtyVars>>

SpecNoCtx == InitNoCtx /\ [][NextNoCtx]_vars












\* Admissions granted by the store (not by failing open) for tenant t whose
\* entry timestamps lie in the window (x - WindowMs, x].
AdmittedIn(t, x) ==
    {e \in rlLog : e.tenant = t /\ e.allowed /\ ~e.failOpen
                   /\ e.at > x - WindowMs /\ e.at <= x}

\* C1: for every tenant and every window of length WindowMs, the number of
\* calls admitted by the store with a timestamp inside the window is at most
\* the tenant's limit, in any interleaving of concurrent checkAndConsume calls.
C1_AtMostLimitPerWindow ==
    \A t \in Tenants : \A x \in 0..MaxTime :
        Cardinality(AdmittedIn(t, x)) <= ApiRateLimit(t)

\* ------------------------------------------------------------------------
\* Repository claims (SpecGW)
\* ------------------------------------------------------------------------

\* Is document i owned by somebody else than the acting tenant?
Foreign(i) == gwStore[i].tenantId # gwLast.ctx

\* C2: every document a read operation returns or counts is owned by the
\* context tenant and, unless includeDeleted was requested, is not soft-deleted.
C2_ReadsTenantScoped ==
    (gwLast.op \in ReadOps /\ gwLast.outcome = "ok") =>
        \A i \in gwLast.result \cup gwLast.counted :
            /\ i \in DOMAIN gwStore
            /\ gwStore[i].tenantId = gwLast.ctx
            /\ ~gwLast.incl => gwStore[i].deletedAt = 0

\* A find over everything returned documents while the collection also holds
\* another tenant's document and a soft-deleted document of the context tenant.
C2_Witness ==
    /\ gwLast.op = "find" /\ gwLast.outcome = "ok" /\ ~gwLast.incl
    /\ gwLast.tidArg = ABSENT /\ gwLast.result # {}
    /\ \E i \in DOMAIN gwStore : Foreign(i)

\* C3: a step of a mutating operation changes or removes only documents that
\* were owned by the context tenant when the operation ran.
C3_WritesTenantScoped ==
    [][\A i \in DOMAIN gwStore :
          (i \notin DOMAIN gwStore' \/ gwStore'[i] # gwStore[i])
              => gwStore[i].tenantId = gwLast'.ctx]_vars

\* A multi-document write matched documents while another tenant's document
\* was in the collection.
C3_Witness ==
    /\ gwLast.op \in {"updateMany", "softDeleteMany", "hardDeleteMany"}
    /\ gwLast.outcome = "ok" /\ gwLast.result # {}
    /\ \E i \in DOMAIN gwStore : gwStore[i].tenantId \in Tenants \ {gwLast.ctx}

\* C4: no update operation changes the tenantId of a document.
C4_TenantIdImmutable ==
    [][gwLast'.op \in UpdateOps =>
          \A i \in DOMAIN gwStore \cap DOMAIN gwStore' :
              gwStore'[i].tenantId = gwStore[i].tenantId]_vars

C6_CreateStampsContextTenant ==
    (gwLast.op \in {"create", "createMany"} /\ gwLast.outcome = "ok") =>
        \A i \in gwLast.result : i \in DOMAIN gwStore /\ gwStore[i].tenantId = gwLast.ctx

\* A create whose data named another tenant than the context tenant succeeded.
C6_Witness ==
    /\ gwLast.op \in {"create", "createMany"} /\ gwLast.outcome = "ok"
    /\ gwLast.tidArg \in Tenants \ {gwLast.ctx}
    /\ gwLast.result # {}

\* ------------------------------------------------------------------------
\* Context carrier claims (SpecCtx)
\* ------------------------------------------------------------------------

\* C7: whenever the handler of a request reads the context, at its start or
\* after any suspension, getTenant() gives the tenant the middleware bound for
\* that same request (and no tenant at all when none was bound), whatever the
\* other requests do in between.
C7_RequestSeesOwnTenant ==
    \A r \in Reqs : \A o \in reqSeen[r] :
        o.where \in {"handler", "resumed"} =>
            IF reqBound[r]
            THEN o.has /\ o.tenant = reqResult[r].tenant
            ELSE ~o.has /\ o.tenant = NoTenantContext

\* A handler resumed after a suspension and read its own tenant while another
\* request, bound to a different tenant, was suspended in its handler.
C7_Witness ==
    \E r \in Reqs : \E o \in reqSeen[r] :
        /\ o.where = "resumed" /\ o.tenant \in Tenants
        /\ o.others \ {o.tenant} # {}

\* C8: inside run(context, body) getTenant() is context.tenant and
\* hasTenantContext() is true; outside any scope hasTenantContext() is false
\* and getTenant() and getTenantId() fail with the no-context error; once body
\* has returned or thrown, the caller is outside the scope again.
C8_ScopeSemantics ==
    /\ ctxProbe.op = "run" =>
          /\ ctxProbe.inHas /\ ctxProbe.inTenant = ctxProbe.tenant
          /\ ~ctxProbe.outHas
          /\ ctxProbe.outTenant = NoTenantContext
          /\ ctxProbe.outTenantId = NoTenantContext
    /\ ctxProbe.op = "outside" =>
          /\ ~ctxProbe.outHas
          /\ ctxProbe.outTenant = NoTenantContext
          /\ ctxProbe.outTenantId = NoTenantContext
    /\ \A r \in Reqs : \A o \in reqSeen[r] :
          o.where = "afterRun" => ~o.has /\ o.tenant = NoTenantContext

\* A run() whose body threw has been left while a request was suspended inside
\* the scope the middleware opened for it.
C8_Witness ==
    /\ ctxProbe.op = "run" /\ ctxProbe.threw
    /\ \E r \in Reqs : reqPc[r] = "handling" /\ reqBound[r]

\* ------------------------------------------------------------------------
\* Resolver claims (SpecRes)
\* ------------------------------------------------------------------------

\* The strategies of resolve() that make a lookup for a request, in priority
\* order.
Applicable(req) == SelectSeq(<<1, 2, 3, 4>>, LAMBDA s : Lookup(req, s) # NoLookup)

\* The first strategy that finds an active tenant in the directory, or
\* NumStrategies + 1.
FirstYielding(req) ==
    LET ys == SelectSeq(Applicable(req), LAMBDA s : DbMatches(Lookup(req, s)) # {})
    IN  IF ys = <<>> THEN NumStrategies + 1 ELSE ys[1]

\* C9: a finished resolve() has tried the strategies in the order claim,
\* header, subdomain, custom domain, each one only after the ones before it
\* yielded nothing, and returns the tenant of the first one that yielded a
\* tenant with that strategy as resolvedVia (null when none did); while no
\* tenant record has been changed this is the first strategy whose identifier
\* names an active tenant, and a claim for tenant t gives t via 'jwt' whatever
\* the header says.
C9_FirstStrategyWins ==
    resPc = "done" =>
        LET app == Applicable(resReq)
            n == Len(resTried)
        IN  /\ n <= Len(app)
            /\ \A i \in 1..n : resTried[i].strat = app[i]
            /\ \A i \in 1..(n - 1) : resTried[i].tenant = NULL
            /\ IF resResult.tenant = NULL
               THEN n = Len(app) /\ \A i \in 1..n : resTried[i].tenant = NULL
               ELSE /\ n >= 1
                    /\ resTried[n].tenant = resResult.tenant
                    /\ resResult.resolvedVia = ViaOf(resTried[n].strat)
            /\ admCount = 0 =>
                  LET f == FirstYielding(resReq)
                  IN  IF f > NumStrategies THEN resResult = NoResolution
                      ELSE /\ resResult.tenant \in DbMatches(Lookup(resReq, f))
                           /\ resResult.resolvedVia = ViaOf(f)
            /\ \A t \in Tenants :
                  (admCount = 0 /\ resReq.user = IdStr(t)) =>
                      resResult.tenant = t /\ resResult.resolvedVia = "jwt"

\* A request with a claim for A and a header naming B was resolved to A via
\* 'jwt'.
C9_Witness ==
    /\ resPc = "done"
    /\ resReq.user = IdStr("A") /\ resReq.header = IdStr("B")
    /\ resResult.tenant = "A" /\ resResult.resolvedVia = "jwt"

\* C10: a resolve() that started after deactivate(id) had completed (and
\* before any reactivation) does not return that tenant, by whatever strategy
\* and whatever was cached before.
C10_DeactivatedNeverResolved ==
    resPc = "done" => resResult.tenant \notin resAfter

\* C11 as claimed: a resolve() that started after regenerateApiKey had
\* completed and presents the replaced credential in the header is not
\* resolved by the header strategy.
C11_OldCredentialRejected ==
    (resPc = "done" /\ resReq.header \in resRetired) =>
        resResult.resolvedVia # "header"

\* C12 as claimed: a step that writes a changed tenant record to the
\* directory leaves no cache entry under the identifier, slug, credential or
\* a domain that the record had before the change.
C12_InvalidatedBeforeWrite ==
    [][\A t \in Tenants :
          dir'[t] # dir[t] =>
              \A k \in InvalidationKeys(Snap(t, dir[t])) : k \notin DOMAIN cache']_vars

\* C15: a lookup whose cache read or cache write failed is answered by the
\* directory query, and, while no tenant record has been changed, with exactly
\* the active tenant the directory holds for the identifier (none if there is
\* none); a failed write of the last lookup does not change what resolve()
\* returns.
C15_CacheFailureFallsBack ==
    /\ \A i \in 1..Len(resTried) :
          LET e == resTried[i]
              m == DbMatches(Lookup(resReq, e.strat))
          IN  (e.getErr \/ e.setErr) =>
                  /\ e.source = "db"
                  /\ admCount = 0 =>
                        IF m = {} THEN e.tenant = NULL ELSE e.tenant \in m
    /\ (resPc = "done" /\ resTried # <<>> /\ resTried[Len(resTried)].setErr) =>
          /\ resResult.tenant = resTried[Len(resTried)].tenant
          /\ resResult.tenant \in Tenants

\* A lookup whose cache read and cache write both failed returned the tenant
\* the directory holds.
C15_Witness ==
    /\ resPc = "done" /\ resTried # <<>>
    /\ LET e == resTried[Len(resTried)]
       IN  e.getErr /\ e.setErr /\ e.tenant \in Tenants /\ resResult.tenant = e.tenant

\* ------------------------------------------------------------------------
\* Rate limiter claims, continued (SpecRL)
\* ------------------------------------------------------------------------

\* The results returned so far for tenant t, and the position of a result
\* among them in the order the calls were made.
TenantLog(t) == {e \in rlLog : e.tenant = t}
RankOf(e) == Cardinality({f \in TenantLog(e.tenant) : f.call <= e.call})

\* C13 as claimed: when the calls were made one after the other, the store
\* answered all of tenant t's calls and their timestamps lie within one
\* window, the k-th call of t is admitted with remaining = limit - k for
\* k <= limit and rejected with remaining = 0 and retryAfter >= 1 for k > limit.
C13_SequentialCounts ==
    \A t \in Tenants :
        (/\ rlSeq
         /\ \A e \in TenantLog(t) : ~e.failOpen
         /\ \A e, f \in TenantLog(t) : e.at - f.at < WindowMs) =>
            \A e \in TenantLog(t) :
                IF RankOf(e) <= ApiRateLimit(t)
                THEN e.allowed /\ e.remaining = ApiRateLimit(t) - RankOf(e)
                ELSE ~e.allowed /\ e.remaining = 0 /\ e.retryAfter >= 1

\* C14: a checkAndConsume whose store call failed returns allowed with
\* remaining = limit and no retryAfter, and the guard lets the request go on to
\* the handler.
C14_FailOpen ==
    \A e \in rlLog :
        e.failOpen =>
            /\ e.allowed /\ e.remaining = e.limit /\ e.retryAfter = 0
            /\ e.limit = ApiRateLimit(e.tenant)
            /\ e.outcome = "handler"

\* The store call of a tenant failed after the store had rejected a call of
\* the same tenant in the same window.
C14_Witness ==
    \E e, f \in rlLog :
        /\ e.failOpen /\ ~f.failOpen /\ ~f.allowed
        /\ e.tenant = f.tenant /\ f.call < e.call /\ e.at - f.at < WindowMs

\* ------------------------------------------------------------------------
\* Repository claims, continued (SpecGW)
\* ------------------------------------------------------------------------

\* Documents of tenant t in a store, all of them or the live ones only.
OwnedIn(store, t, withDeleted) ==
    {i \in DOMAIN store : store[i].tenantId = t /\ (withDeleted \/ store[i].deletedAt = 0)}

\* Does the filter of the last operation name another tenant than the context
\* tenant (the case in which the operation is denied)?
Denied(last) == Truthy(last.tidArg) /\ last.tidArg # last.ctx

C17_SoftDeleteRestoreHardDelete ==
    [][/\ (gwLast'.op = "softDelete" /\ gwLast'.outcome = "ok") =>
            /\ DOMAIN gwStore' = DOMAIN gwStore
            /\ gwLast'.result = OwnedIn(gwStore, gwLast'.ctx, FALSE) \cap {gwLast'.arg.id}
            /\ \A i \in gwLast'.result :
                  gwStore'[i].deletedAt # 0 /\ gwStore'[i].tenantId = gwLast'.ctx
       /\ (gwLast'.op = "find" /\ gwLast'.outcome = "ok" /\ gwLast'.arg = NoFilter) =>
            gwLast'.result = OwnedIn(gwStore', gwLast'.ctx, gwLast'.incl)
       /\ (gwLast'.op = "findById" /\ gwLast'.outcome = "ok") =>
            gwLast'.result = OwnedIn(gwStore', gwLast'.ctx, gwLast'.incl) \cap {gwLast'.arg.id}
       /\ (gwLast'.op = "findDeleted" /\ gwLast'.outcome = "ok" /\ gwLast'.arg = NoFilter) =>
            gwLast'.result = OwnedIn(gwStore', gwLast'.ctx, TRUE)
                                \ OwnedIn(gwStore', gwLast'.ctx, FALSE)
       /\ (gwLast'.op = "restore" /\ gwLast'.outcome = "ok") =>
            /\ DOMAIN gwStore' = DOMAIN gwStore
            /\ gwLast'.result = OwnedIn(gwStore, gwLast'.ctx, TRUE) \cap {gwLast'.arg.id}
            /\ \A i \in gwLast'.result :
                  gwStore'[i].deletedAt = 0 /\ gwStore'[i].deletedBy = NULL
       /\ \A i \in DOMAIN gwStore \ DOMAIN gwStore' :
            gwLast'.op \in DeleteOps /\ gwStore[i].tenantId = gwLast'.ctx]_vars

\* softDelete matched a live document of the context tenant: the row is still
\* there, stamped with the time of the call and the actor.
C17_Witness ==
    /\ gwLast.op = "softDelete" /\ gwLast.outcome = "ok" /\ gwLast.result # {}
    /\ \A i \in gwLast.result :
          /\ i \in DOMAIN gwStore
          /\ gwStore[i].deletedAt = gwClock
          /\ gwStore[i].deletedBy # NULL

\* ------------------------------------------------------------------------
\* Aggregation claims (SpecAgg)
\* ------------------------------------------------------------------------

\* C18: for an input pipeline of n stages, protectAggregatePipeline returns
\* n + 1 stages: first the match on (tenantId = context tenant, deletedAt =
\* null), then the input stages in order, in which a $lookup with a nested
\* pipeline has that match prepended to the nested pipeline and every other
\* stage, a $lookup without nested pipeline included, is unmodified.
C18_PipelineProtected ==
    aggPc = "done" =>
        /\ Len(aggOut) = Len(aggIn) + 1
        /\ aggOut[1].op = "$match"
        /\ aggOut[1].tenantId = aggCtx /\ aggOut[1].deletedAt = NULL
        /\ \A i \in 1..Len(aggIn) :
              IF aggIn[i].op = "$lookup" /\ aggIn[i].hasPipeline
              THEN /\ aggOut[i + 1].op = "$lookup"
                   /\ aggOut[i + 1].from = aggIn[i].from
                   /\ aggOut[i + 1].hasPipeline
                   /\ Len(aggOut[i + 1].pipeline) = Len(aggIn[i].pipeline) + 1
                   /\ aggOut[i + 1].pipeline[1] = aggOut[1]
                   /\ \A j \in 1..Len(aggIn[i].pipeline) :
                         aggOut[i + 1].pipeline[j + 1] = aggIn[i].pipeline[j]
              ELSE aggOut[i + 1] = aggIn[i]

\* A pipeline holding a simple $lookup and a $lookup with a one-stage nested
\* pipeline was protected in a tenant context.
C18_Witness ==
    /\ aggPc = "done" /\ aggCtx \in Tenants
    /\ \E i, j \in 1..Len(aggIn) :
          /\ aggIn[i].op = "$lookup" /\ aggIn[i].hasPipeline /\ Len(aggIn[i].pipeline) = 1
          /\ aggIn[j].op = "$lookup" /\ ~aggIn[j].hasPipeline

\* ------------------------------------------------------------------------
\* Snapshot round trip (SpecRt)
\* ------------------------------------------------------------------------

\* C19: the tenant returned by the lookup that hits the cache has the same
\* slug, tier, domains and effective limits as the tenant the preceding miss
\* returned and cached, overrides included.
C19_RoundTrip ==
    rtPc = "hit" =>
        /\ rtHit.slug = rtMiss.slug
        /\ rtHit.tier = rtMiss.tier
        /\ rtHit.domains = rtMiss.domains
        /\ GetEffectiveLimits(rtHit) = GetEffectiveLimits(rtMiss)

\* The same, for tenants none of whose overrides is Infinity.
C19_RoundTripFinite ==
    (rtPc = "hit" /\ (rtDoc.customLimits # NoCustomLimits =>
                        \A k \in DOMAIN rtDoc.customLimits : rtDoc.customLimits[k] # Infinity)) =>
        /\ rtHit.slug = rtMiss.slug
        /\ rtHit.tier = rtMiss.tier
        /\ rtHit.domains = rtMiss.domains
        /\ GetEffectiveLimits(rtHit) = GetEffectiveLimits(rtMiss)

\* ------------------------------------------------------------------------
\* Usage meter claims (SpecUse)
\* ------------------------------------------------------------------------

\* Is h, in hundredths of a percent, n / cap * 100 rounded to two decimals?
RoundedPercent(h, n, cap) == 2 * h * cap - cap <= 2 * n * 10000 /\ 2 * n * 10000 < 2 * h * cap + cap

\* The summary reports as transactions the number of increment calls that had
\* returned for its tenant and period, and the percentage of the finite cap.
SummaryExact(sum) ==
    /\ sum.transactions = sum.done["transactions"]
    /\ sum.apiCalls = sum.done["api_calls"]
    /\ sum.maxTransactionsPerMonth # Infinity =>
          RoundedPercent(sum.transactionPercentUsed, sum.done["transactions"],
                         sum.maxTransactionsPerMonth.v)

C21_CountersNonDecreasing ==
    [][\A k \in UsageKeys, m \in Metrics : useHash'[k][m] >= useHash[k][m]]_vars

\* ------------------------------------------------------------------------
\* Payments and the meter (SpecPay)
\* ------------------------------------------------------------------------

\* C28: for every tenant and period, the transactions counter equals the
\* number of payments the tenant created in the period, and the last answer
\* of hasExceededTransactionLimit compares that number with the cap.
C28_PaymentsCounted ==
    /\ \A k \in UsageKeys : useHash[k]["transactions"] = payCreated[k]
    /\ (payExceeded # NoAnswer /\ ~useSummary.failed) =>
          LET cap == TIER_CONFIGS[useTier[payExceeded.tenantId]].maxTransactionsPerMonth
          IN  payExceeded.exceeded =
                 (cap # Infinity /\
                  payCreated[<<payExceeded.tenantId, payExceeded.period>>] >= cap.v)

\* ------------------------------------------------------------------------
\* Usage history (SpecHist)
\* ------------------------------------------------------------------------

\* The periods getHistory(n) is to examine: the current one and the n - 1
\* before it.
PeriodsBack(now, n) == [i \in 1..n |-> now - (i - 1)]

HistoryAsClaimed(h) ==
    /\ h.examined = PeriodsBack(h.now, h.months)
    /\ LET withData == SelectSeq(PeriodsBack(h.now, h.months),
                                 LAMBDA p : p \in h.stored)
       IN  /\ Len(h.history) = Len(withData)
           /\ \A j \in 1..Len(withData) : h.history[j].period = withData[j]

\* C27: getHistory(n) examines exactly the n periods from the current one
\* backwards and returns, newest first, one summary for each of them that has
\* data, whatever the server's time zone.
C27_HistoryPeriods ==
    (histOut # NoHistory /\ histOut.failed = {}) => HistoryAsClaimed(histOut)

\* The same on servers whose local time is not ahead of UTC.
C27_HistoryPeriodsNotAheadOfUtc ==
    (histOut # NoHistory /\ histOut.failed = {} /\ histTz <= 0) => HistoryAsClaimed(histOut)

\* ------------------------------------------------------------------------
\* Entry guard (SpecCtx)
\* ------------------------------------------------------------------------

StepAt(trace, step) ==
    IF \E i \in DOMAIN trace : trace[i] = step
    THEN CHOOSE i \in DOMAIN trace : trace[i] = step /\ \A j \in 1..(i - 1) : trace[j] # step
    ELSE 0

\* Step a, if taken, comes after step b, which was taken.
After(trace, a, b) ==
    StepAt(trace, a) # 0 => (StepAt(trace, b) # 0 /\ StepAt(trace, b) < StepAt(trace, a))

\* C23: in every request the steps come in the order resolve, context,
\* tenant guard, rate-limit check, handler, gateway call; a token is consumed
\* only after the tenant guard has passed, and on a route that is neither
\* skip-tenant nor skip-rate-limit the handler starts only after
\* checkAndConsume has allowed the request.
C23_StepOrder ==
    \A r \in Reqs :
        LET trace == pipeTrace[r]
        IN  /\ After(trace, "context", "resolve")
            /\ After(trace, "tenantGuard", "resolve")
            /\ After(trace, "checkAndConsume", "tenantGuard")
            /\ After(trace, "checkAndConsume", "context")
            /\ After(trace, "handler", "tenantGuard")
            /\ After(trace, "handler", "rateLimitGuard")
            /\ After(trace, "gateway", "handler")
            /\ StepAt(trace, "checkAndConsume") # 0 => StepAt(trace, "handler") # 1
            /\ (StepAt(trace, "checkAndConsume") # 0 /\ StepAt(trace, "handler") # 0) =>
                  StepAt(trace, "checkAndConsume") < StepAt(trace, "handler")
            /\ (StepAt(trace, "handler") # 0 /\ ~pipeRoute[r].skipTenant
                    /\ ~pipeRoute[r].skipRateLimit) =>
                  /\ StepAt(trace, "checkAndConsume") # 0
                  /\ Allowed(pipeCheck[r])

\* A request went through all six steps while another was turned away by the
\* limiter.
C23_Witness ==
    \E r, q \in Reqs :
        /\ pipeTrace[r] = <<"resolve", "context", "tenantGuard", "rateLimitGuard",
                            "checkAndConsume", "trackApiCall", "handler", "gateway">>
        /\ pipeOutcome[r] = "ok"
        /\ pipeOutcome[q] = "tooManyRequests"

\* ------------------------------------------------------------------------
\* www.<slug>.<baseDomain>:<port> (SpecSub)
\* ------------------------------------------------------------------------

\* C24: for every port and every slug without a dot, the host
\* www.<slug>.<baseDomain>:<port> makes the subdomain strategy look up
\* exactly <slug>.
C24_WwwHostLooksUpSlug ==
    subOut # NoSub => subOut.looked = subOut.slug

\* The same for every slug other than "www".
C24_WwwHostLooksUpSlugNotWww ==
    (subOut # NoSub /\ subOut.slug # Www) => subOut.looked = subOut.slug

\* ------------------------------------------------------------------------
\* A header value that matches several tenants (SpecHdr)
\* ------------------------------------------------------------------------

ActiveWith(v, field) ==
    {t \in Tenants :
        /\ dir[t].isActive
        /\ CASE field = "id" -> IdStr(t) = v
             [] field = "apiKey" -> dir[t].apiKey = v
             [] OTHER -> dir[t].slug = v}

\* The tenants the claimed order of preference allows for a header value.
Preferred(v) ==
    IF ActiveWith(v, "id") # {} THEN ActiveWith(v, "id")
    ELSE IF ActiveWith(v, "apiKey") # {} THEN ActiveWith(v, "apiKey")
    ELSE ActiveWith(v, "slug")

\* C25: a header value that matches several active tenants through different
\* fields resolves to the identifier match if there is one, else to the
\* credential match, else to the slug match.
C25_HeaderPreference ==
    (resPc = "setex" /\ ViaOf(resStrat) = "header") => resFound.id \in Preferred(resReq.header)

\* A header value matched two tenants and the query returned the identifier
\* match.
C25_Reached ==
    /\ resPc = "setex" /\ ViaOf(resStrat) = "header"
    /\ Cardinality(DbMatches(Lookup(resReq, resStrat))) = 2
    /\ resFound.id \in Preferred(resReq.header)

\* ------------------------------------------------------------------------
\* Uniqueness of slug, domains and API key under concurrency (SpecTc)
\* ------------------------------------------------------------------------

UniqueSlugs == \A i, j \in DOMAIN tcColl : i # j => tcColl[i].slug # tcColl[j].slug

UniqueDomains == \A i, j \in DOMAIN tcColl : i # j => tcColl[i].domains \cap tcColl[j].domains = {}

UniqueApiKeys == \A i, j \in DOMAIN tcColl : i # j => tcColl[i].apiKey # tcColl[j].apiKey

\* C26: after any interleaving of concurrent create and update operations no
\* two tenants share a slug, no domain is in the lists of two tenants, and no
\* two tenants share an API key.
C26_UniqueUnderConcurrency == UniqueSlugs /\ UniqueDomains /\ UniqueApiKeys

\* The part the unique indexes enforce: slug and API key.
C26_SlugsAndKeysUnique == UniqueSlugs /\ UniqueApiKeys

\* ------------------------------------------------------------------------
\* Repository operations outside any tenant scope (SpecNoCtx)
\* ------------------------------------------------------------------------

\* A repository operation has just been called outside any scope.
CalledOutside == gwOps' # gwOps /\ gwLast'.ctx = NULL

\* No call reached the store and the collection is as it was.
StoreUntouched ==
    /\ gwLast'.storeCalls = 0
    /\ gwStore' = gwStore
    /\ gwNextId' = gwNextId

\* aggregate() has just been called outside any scope: it threw in
\* protectAggregatePipeline, before model.aggregate.
AggregateRefused == aggPc' # aggPc => (aggPc' = "noContext" /\ aggOut' = <<>>)

OwnAdmitted(t) == {l \in rlLog : l.tenant = t /\ l.allowed /\ ~l.failOpen}

\* C30: a checkAndConsume call for one tenant never changes another tenant's
\* window entries, and a tenant's admission depends only on its own admitted
\* requests within the window, its limit and the time: every entry in a
\* tenant's window was put there by an admitted call of that tenant, and a
\* call of a tenant is rejected only when calls of that same tenant, as many
\* as its limit, were admitted within the window.
C30_TenantsIndependent ==
    /\ \A t \in Tenants : \A e \in zset[GlobalKey(t)] :
           \E l \in OwnAdmitted(t) : l.at = e.score
    /\ \A l \in rlLog :
           ~l.allowed =>
               Cardinality({m \in OwnAdmitted(l.tenant) :
                               m.call # l.call /\ m.at > l.at - WindowMs})
                   >= ApiRateLimit(l.tenant)

\* Tenant B was turned away at its limit while tenant A, with entries of its
\* own in its window, was admitted at the same time.
C30_Witness ==
    \E a, b, c \in rlLog :
        /\ a.tenant = "A" /\ a.allowed /\ ~a.failOpen
        /\ b.tenant = "B" /\ b.allowed /\ ~b.failOpen
        /\ c.tenant = "B" /\ ~c.allowed /\ c.at = a.at
        /\ zset[GlobalKey("A")] # {} /\ zset[GlobalKey("B")] # {}

\* ------------------------------------------------------------------------
\* What a rejection leaves behind (SpecRL)
\* ------------------------------------------------------------------------

\* C31: a rejected checkAndConsume adds no entry to the tenant's window and
\* does not change the expiry of the key: the window stored after it is the
\* window stored before it without the entries at or before now - window.
C31_RejectionLeavesWindow ==
    [][\A l \in rlLog' \ rlLog :
          ~l.allowed =>
              LET key == GlobalKey(l.tenant)
              IN  /\ zset'[key] = {e \in zset[key] : e.score > l.at - WindowMs}
                  /\ pexpire'[key] = pexpire[key]]_vars

\* A call was rejected and the window still holds the entries that filled it.
C31_Witness ==
    \E l \in rlLog :
        /\ ~l.allowed
        /\ Cardinality(zset[GlobalKey(l.tenant)]) = ApiRateLimit(l.tenant)
        /\ pexpire[GlobalKey(l.tenant)] # 0

\* ------------------------------------------------------------------------
\* Expiry of the window key (SpecExp)
\* ------------------------------------------------------------------------

\* The key of tenant t has expired.
KeyExpired(t) == pexpire[GlobalKey(t)] # 0 /\ rlClock >= pexpire[GlobalKey(t)]

\* C32: every admission sets the expiry of the tenant's key to exactly twice
\* the window length from the time the script runs, and a key that expires
\* holds no entry that is still inside the current window.
C32_ExpiryTwiceWindow ==
    [][/\ \A l \in rlLog' \ rlLog :
              (l.allowed /\ ~l.failOpen) =>
                  pexpire'[GlobalKey(l.tenant)] = rlClock + 2 * WindowMs
       /\ \A t \in Tenants :
              KeyExpired(t)' =>
                  \A e \in zset'[GlobalKey(t)] : e.score <= rlClock' - WindowMs]_vars

\* A key with an entry has expired and a later call of the tenant found an
\* empty window.
C32_Witness ==
    \E t \in Tenants : \E l, m \in rlLog :
        /\ l.tenant = t /\ m.tenant = t /\ l.allowed /\ m.allowed
        /\ ~l.failOpen /\ ~m.failOpen
        /\ m.at >= l.at + 2 * WindowMs
        /\ m.remaining = ApiRateLimit(t) - 1

\* ------------------------------------------------------------------------
\* The api_calls counter and the rate-limit guard (SpecMeter)
\* ------------------------------------------------------------------------

\* Requests of tenant t on which the limiter gave the answers `answers`.
Answered(t, answers) ==
    {r \in Reqs : pipeCheck[r] \in answers /\ GetTenantId(pipeStore[r]) = t}

\* trackApiCall calls of tenant t still in flight.
ApiCallsPending(t) ==
    {c \in Callers : useCall[c].pc = "sent" /\ useCall[c].metric = "api_calls"
                     /\ useCall[c].key = GetUsageKey(t, usePeriod)}

\* C33: the api_calls counter of a tenant is incremented once for each of
\* its requests the limiter admitted and never for a rejected one, and a
\* failed increment is absorbed: the admitted request goes on to its handler
\* all the same.
C33_ApiCallsFollowAdmissions ==
    /\ \A t \in Tenants :
          LET key == GetUsageKey(t, usePeriod)
          IN  /\ useDone[key]["api_calls"] + Cardinality(ApiCallsPending(t))
                    = Cardinality(Answered(t, {"admitted", "failOpen"}))
              /\ useHash[key]["api_calls"]
                    = useDone[key]["api_calls"] - useLost[key]["api_calls"]
    /\ \A r \in Reqs :
          /\ pipeCheck[r] \in {"admitted", "failOpen"} =>
                 /\ pipePc[r] \in {"tenantGuard", "handler", "done"}
                 /\ pipeOutcome[r] \in {"none", "ok"}
          /\ pipeCheck[r] = "rejected" => pipeOutcome[r] = "tooManyRequests"

\* One request of tenant A was admitted and counted, another was admitted
\* and its increment failed, and both were answered by their handler.
C33_Witness ==
    /\ Cardinality(Answered("A", {"admitted", "failOpen"})) = 2
    /\ useHash[GetUsageKey("A", usePeriod)]["api_calls"] = 1
    /\ useLost[GetUsageKey("A", usePeriod)]["api_calls"] = 1
    /\ \A r \in Answered("A", {"admitted", "failOpen"}) : pipeOutcome[r] = "ok"

\* ------------------------------------------------------------------------
\* No negative caching (SpecNew)
\* ------------------------------------------------------------------------

\* C34: a lookup that finds no tenant writes no cache entry, so that after
\* create(dto) has completed the first resolution by the new tenant's slug,
\* API key or domain returns the new tenant, also when the same key was
\* looked up without success before the creation.
C34_NoNegativeCaching ==
    /\ \A key \in DOMAIN cache : cache[key].id # NULL
    /\ ~newCreated => DOMAIN cache = {}
    /\ (resPc = "done" /\ newSeen) => resResult.tenant = "B"

\* A request found nothing before the creation and the same request, made
\* again after it, returned the new tenant.
C34_Witness ==
    /\ newMissed # NoReq
    /\ resPc = "done" /\ newSeen
    /\ resReq = newMissed
    /\ resResult.tenant = "B"

\* ------------------------------------------------------------------------
\* A lookup racing a change of the tenant (SpecRes)
\* ------------------------------------------------------------------------

\* C35 as claimed: once a resolve() and an update, regenerateApiKey or
\* deactivate of a tenant have both completed, every cache entry of that
\* tenant under a key the change invalidates holds the record as the
\* directory has it after the change.
C35_NoStaleEntryAfterRace ==
    (/\ resPc = "done"
     /\ admPc = "idle" /\ admCount > 0
     /\ admOp \in {"update", "regenerateApiKey", "deactivate"}) =>
        \A key \in DOMAIN cache \cap InvalidationKeys(admDoc) :
            cache[key].id = admDoc.id => cache[key] = Snap(admDoc.id, dir[admDoc.id])

\* ------------------------------------------------------------------------
\* The tenant identifier of a cache hit (SpecRt)
\* ------------------------------------------------------------------------

\* C36 as claimed: the tenant a cache hit returns has the tenant identifier
\* of the directory record that was cached, so that getTenantId() is the same
\* for the lookup that missed and for the lookup that hit.
C36_HitCarriesSameId ==
    rtPc = "hit" => TenantIdOf(rtHit) = TenantIdOf(rtMiss)

\* ------------------------------------------------------------------------
\* The label boundary before the base domain (SpecHost)
\* ------------------------------------------------------------------------

\* C37 as claimed: the subdomain strategy looks up a slug only when the host
\* without its port is one or more labels, a dot and the base domain.
C37_LookupOnlyAtLabelBoundary ==
    subOut.looked # Empty =>
        LET hostname == BeforeFirst(subOut.host, ":")
        IN  /\ Len(hostname) > Len(BaseDomain) + 1
            /\ EndsWith(hostname, <<".">> \o BaseDomain)

\* ------------------------------------------------------------------------
\* A claim that names no active tenant (SpecClaim)
\* ------------------------------------------------------------------------

\* C38 as claimed: a resolve() of a request whose claim matches no active
\* tenant does not fail; it ends with the result of the strategies after the
\* claim, never resolved by the claim.
C38_ClaimMissFallsThrough ==
    (/\ resCount > 0
     /\ resPc \in {"done", "failed"}
     /\ DbMatches([kind |-> "id", arg |-> resReq.user]) = {}) =>
        /\ resPc = "done"
        /\ resResult.resolvedVia # "jwt"

\* ------------------------------------------------------------------------
\* One entry per admission (SpecRL)
\* ------------------------------------------------------------------------

\* C39 as claimed: every admission adds exactly one new entry to the sorted
\* set, also when it carries the timestamp of another admission, and the
\* count it reports is the number of entries stored.
C39_AdmissionAddsOneEntry ==
    [][\A e \in rlLog' \ rlLog :
          (e.allowed /\ ~e.failOpen) =>
              LET key == GlobalKey(e.tenant)
                  pruned == ZRemRangeByScore(LiveZset(key), 0, e.at - WindowMs)
              IN  /\ Cardinality(zset'[key]) = Cardinality(pruned) + 1
                  /\ e.limit - e.remaining = Cardinality(zset'[key])]_vars

\* ------------------------------------------------------------------------
\* Retry guidance (SpecRetry)
\* ------------------------------------------------------------------------

\* C40: a request made at or after the reset time reported with a rejection
\* of its tenant, with no admission of the tenant since that rejection, is
\* admitted.
C40_RetryAdmitted ==
    rtyRetried # NoEntry => rtyRetried.allowed

\* A rejected tenant retried at its reset time and the script admitted it.
C40_Witness ==
    /\ rtyRetried # NoEntry
    /\ rtyRetried.allowed /\ ~rtyRetried.failOpen
    /\ rtyRetried.at >= WindowMs

====
